---- MODULE Spec2Model ----
(***************************************************************************)
(* jointhedots: the Dotfile / Manifest install and sync engine             *)
(* (src/src/structs/dotfile.rs, manifest.rs, metadata.rs) over the git     *)
(* primitives of src/src/git/operations.rs.                                *)
(*                                                                         *)
(* A repository is a commit graph (commit ids are positions in `commits`), *)
(* the set of commits its object database holds, branch refs, HEAD, a      *)
(* working tree and an index.  Every dotfile owns one repository file, so  *)
(* trees, the working tree and the index map a dotfile name to the content *)
(* of its file.  File contents are small integers; Absent is a file that   *)
(* does not exist.  A commit hash that names no commit is NoCommit.        *)
(***************************************************************************)
EXTENDS Integers, Sequences, FiniteSets, TLC

\* ------------------------------------------------------------------ bounds
MaxCommits == 5
MaxContent == 2
MaxOps == 2
MaxCommands == 2

\* --------------------------------------------------------------- constants
Absent == 0
NoCommit == 0

Dotfiles == {"kitty", "neovim"}
Contents == 1..MaxContent
FileStates == 0..MaxContent

\* Option<T> is a sequence of length at most one.
None == << >>
Some(x) == << x >>

Range(s) == {s[i] : i \in DOMAIN s}

\* `let x = e; F(x)`: e is evaluated once and F sees its value
Let(e, F(_)) == CHOOSE v \in {F(x) : x \in {e}} : TRUE

\* ------------------------------------------------------------- the manifest
\* kitty declares pre_install and post_install command lists, neovim none.
pre_install == [d \in Dotfiles |-> IF d = "kitty" THEN Some(<<"mkdir conf">>) ELSE None]
post_install == [d \in Dotfiles |-> IF d = "kitty" THEN Some(<<"kitty reload", "echo ok">>) ELSE None]

\* the bytes the digest of a command list is taken of: the commands one after
\* the other with nothing between them (the digest the tests expect of
\* ["echo", "ls", "cat"] is the sha1 of "echolscat")
RECURSIVE command_bytes(_)
command_bytes(cmds) == IF cmds = << >> THEN "" ELSE Head(cmds) \o command_bytes(Tail(cmds))

\* sha1 in hexadecimal, rendered as its input under a tag: equal digests for
\* equal inputs only
Sha1Hex(bytes) == "sha1:" \o bytes

\* sha1 of a command list
hash_command_vec(cmds) == Sha1Hex(command_bytes(cmds))

hash_pre_install(d) == IF pre_install[d] # None THEN hash_command_vec(pre_install[d][1]) ELSE ""
hash_post_install(d) == IF post_install[d] # None THEN hash_command_vec(post_install[d][1]) ELSE ""

\* format!("merge-{}-dotfile", dotfile_name)
new_branch_name(d) == IF d = "kitty" THEN "merge-kitty-dotfile" ELSE "merge-neovim-dotfile"
Branches == {"master"} \cup {new_branch_name(d) : d \in Dotfiles}

\* Config::generate_commit_message, as the list of words of the message
generate_commit_message(names) ==
    IF Len(names) = 1 THEN <<"Sync", names[1], "dotfile">>
    ELSE <<"Sync dotfiles for">> \o names

\* DotfileMetadata::new
DotfileMetadata(commit_hash, sync_hash, pre_hash, post_hash) ==
    [install_hash |-> commit_hash, sync_hash |-> sync_hash,
     pre_install_hash |-> pre_hash, post_install_hash |-> post_hash]

\* HashMap get / insert on a map kept as a function over its key set
MapGet(m, k) == IF k \in DOMAIN m THEN Some(m[k]) ELSE None
\* an insert that leaves k as the only key
MapReplace(m, k, v) == [x \in {k} |-> v]
MapInsert(m, k, v) == [x \in (DOMAIN m) \cup {k} |-> IF x = k THEN v ELSE m[x]]
EmptyMap == [x \in {} |-> 0]

\* ------------------------------------------------------------ git primitives
\* A repository value r has fields commits, objects, refs, head, worktree,
\* index, conflicts.  head.ref is the branch HEAD is attached to, "" when
\* detached.

HeadOid(r) == IF r.head.ref = "" THEN r.head.oid ELSE r.refs[r.head.ref]

Attached(b) == [ref |-> b, oid |-> NoCommit]
Detached(c) == [ref |-> "", oid |-> c]

\* arguments of checkout_ref: a commit hash, a branch name, or "HEAD"
RefHash(h) == [kind |-> "hash", name |-> "", oid |-> h]
RefName(n) == [kind |-> "ref", name |-> n, oid |-> NoCommit]
RefHEAD == [kind |-> "HEAD", name |-> "", oid |-> NoCommit]

\* repo.head()?.name(): the branch ref, or "HEAD" itself when detached
HeadRefName(r) == IF r.head.ref = "" THEN RefHEAD ELSE RefName(r.head.ref)

\* repo.revparse_ext: the object and, for a ref, the reference
revparse_ext(r, ref) ==
    IF ref.kind = "hash"
    THEN [ok |-> ref.oid \in r.objects, oid |-> ref.oid, gref |-> ""]
    ELSE IF ref.kind = "ref"
    THEN [ok |-> r.refs[ref.name] # NoCommit, oid |-> r.refs[ref.name], gref |-> ref.name]
    ELSE [ok |-> TRUE, oid |-> HeadOid(r), gref |-> "HEAD"]

\* get_commit
get_commit(r, h) == revparse_ext(r, RefHash(h))

\* repo.checkout_tree(object, None): libgit2's default safe checkout.  A file
\* whose content is the same in the baseline (HEAD) and in the target keeps
\* its working-tree content; a file that differs is updated unless it carries
\* a local modification, which makes the checkout fail.
CheckoutBlocked(r, oid) ==
    \E f \in Dotfiles :
        /\ r.commits[oid].tree[f] # r.commits[HeadOid(r)].tree[f]
        /\ r.worktree[f] # r.commits[HeadOid(r)].tree[f]
        /\ r.worktree[f] # r.commits[oid].tree[f]

checkout_tree(r, oid) ==
    [r EXCEPT !.worktree = [f \in Dotfiles |->
                               IF r.commits[oid].tree[f] = r.commits[HeadOid(r)].tree[f]
                               THEN r.worktree[f] ELSE r.commits[oid].tree[f]],
              !.index = [f \in Dotfiles |->
                               IF r.commits[oid].tree[f] = r.commits[HeadOid(r)].tree[f]
                               THEN r.index[f] ELSE r.commits[oid].tree[f]]]

\* checkout_ref: revparse_ext, checkout_tree, then set_head on the reference
\* or set_head_detached on the object
checkout_ref(r, ref) ==
    Let(revparse_ext(r, ref), LAMBDA rp :
        IF ~rp.ok THEN [ok |-> FALSE, repo |-> r]
        ELSE IF CheckoutBlocked(r, rp.oid) THEN [ok |-> FALSE, repo |-> r]
        ELSE Let(checkout_tree(r, rp.oid), LAMBDA t :
             IF rp.gref = "" THEN [ok |-> TRUE, repo |-> [t EXCEPT !.head = Detached(rp.oid)]]
             ELSE IF rp.gref = "HEAD" THEN [ok |-> r.head.ref = "", repo |-> t]
             ELSE [ok |-> TRUE, repo |-> [t EXCEPT !.head = Attached(rp.gref)]]))

\* add_all: index.add_all stages the files of the working tree that match
\* (None: every file); a file missing from the working tree is left as staged
add_all(r, paths) ==
    [r EXCEPT !.index = [f \in Dotfiles |->
                            IF (paths = None \/ f \in paths[1]) /\ r.worktree[f] # Absent
                            THEN r.worktree[f] ELSE r.index[f]],
              !.conflicts = {f \in r.conflicts :
                                ~((paths = None \/ f \in paths[1]) /\ r.worktree[f] # Absent)}]

\* repo.commit(update_ref = "HEAD", ...): appends the commit and moves the
\* branch HEAD is attached to (or the detached HEAD)
commit_on_head(r, tree, parents, msg, time) ==
    Let(Len(r.commits) + 1, LAMBDA id :
    Let([parents |-> parents, tree |-> tree, time |-> time, msg |-> msg], LAMBDA c :
        IF r.head.ref = ""
        THEN [r EXCEPT !.commits = Append(r.commits, c), !.objects = r.objects \cup {id},
                       !.head = Detached(id)]
        ELSE [r EXCEPT !.commits = Append(r.commits, c), !.objects = r.objects \cup {id},
                       !.refs[r.head.ref] = id]))

\* add_and_commit(repo, file_paths, message, maybe_parents, Some("HEAD")).
\* libgit2 refuses to write a tree from an index with conflicts, and refuses
\* the commit when the first parent is not the current tip of the updated ref.
add_and_commit(r, paths, msg, maybe_parents, time) ==
    Let(add_all(r, paths), LAMBDA a :
    Let(IF maybe_parents = None THEN <<HeadOid(a)>> ELSE maybe_parents[1], LAMBDA parents :
        IF a.conflicts # {} \/ parents = << >> \/ parents[1] # HeadOid(a)
        THEN [ok |-> FALSE, repo |-> a, oid |-> NoCommit]
        ELSE [ok |-> TRUE, repo |-> commit_on_head(a, a.index, parents, msg, time),
              oid |-> Len(a.commits) + 1]))

\* ancestors of a commit, itself included (parents have smaller ids)
RECURSIVE Ancestors(_, _)
Ancestors(cs, c) ==
    IF c = NoCommit THEN {}
    ELSE {c} \cup UNION {Ancestors(cs, cs[c].parents[i]) : i \in DOMAIN cs[c].parents}

SetMax(S) == CHOOSE x \in S : \A y \in S : y <= x

\* the merge base libgit2 computes for repo.merge
merge_base(cs, a, b) ==
    Let(Ancestors(cs, a) \cap Ancestors(cs, b), LAMBDA ca :
        IF ca = {} THEN NoCommit ELSE SetMax(ca))

BaseTree(cs, b) == IF b = NoCommit THEN [f \in Dotfiles |-> Absent] ELSE cs[b].tree

\* three-way merge of one file: a side that did not change loses to the
\* other; two different changes conflict
MergeFile(b, o, t) == IF o = t THEN o ELSE IF b = o THEN t ELSE o
\* a variant of MergeConflicts that lets our side win every conflict
MergeConflictsOurs(b, o, t) == {f \in Dotfiles : FALSE}

MergeConflicts(b, o, t) == {f \in Dotfiles : o[f] # t[f] /\ b[f] # o[f] /\ b[f] # t[f]}

\* repo.merge(&[feature_tip], ...): merge into HEAD, result in index and tree
repo_merge(r, feature) ==
    Let(BaseTree(r.commits, merge_base(r.commits, HeadOid(r), feature)), LAMBDA b :
    Let([f \in Dotfiles |-> MergeFile(b[f], r.commits[HeadOid(r)].tree[f],
                                       r.commits[feature].tree[f])], LAMBDA m :
        [r EXCEPT !.index = m, !.worktree = m,
                  !.conflicts = MergeConflicts(b, r.commits[HeadOid(r)].tree,
                                               r.commits[feature].tree)]))

\* clone_repo: what a fresh clone of the remote holds when the remote's
\* master is tip
clone_repo(cs, tip) ==
    [commits |-> cs, objects |-> Ancestors(cs, tip),
     refs |-> [b \in Branches |-> IF b = "master" THEN tip ELSE NoCommit],
     head |-> Attached("master"), worktree |-> cs[tip].tree, index |-> cs[tip].tree,
     conflicts |-> {}]

\* ------------------------------------------------------------------ Dotfile
\* Path::exists on the unexpanded target, as Manifest::install tests it: a
\* target written with the home shorthand "~" is not found under that name.
target_has_tilde == [d \in Dotfiles |-> d = "neovim"]

\* what a Dotfile::has_changed call did: res is "true", "false" or "err"
\* ("none": not called), repo the repository as the call leaves it, unreadable
\* whether the read of the repository copy failed on a file that is not text
HasChanged(res, repo, unreadable) == [res |-> res, repo |-> repo, unreadable |-> unreadable]

\* a variant of has_changed that returns without the second checkout_ref
has_changed_no_restore(r, d, metadata, local_content, repo_text) ==
    IF local_content = Absent THEN HasChanged("err", r, FALSE)
    ELSE Let(checkout_ref(r, RefHash(metadata.sync_hash)), LAMBDA co1 :
         IF ~co1.ok THEN HasChanged("err", co1.repo, FALSE)
         ELSE IF co1.repo.worktree[d] = Absent THEN HasChanged("err", co1.repo, FALSE)
         ELSE IF ~repo_text THEN HasChanged("err", co1.repo, TRUE)
         ELSE IF local_content # co1.repo.worktree[d]
         THEN HasChanged("true", co1.repo, FALSE)
         ELSE HasChanged("false", co1.repo, FALSE))

\* Dotfile::has_changed.  fs::read_to_string fails on a missing file and on
\* one that is not UTF-8 text: repo_text says whether the repository copy at
\* sync_hash can be read as text.
has_changed(r, d, metadata, local_content, repo_text) ==
    IF local_content = Absent THEN HasChanged("err", r, FALSE)
    ELSE Let(checkout_ref(r, RefHash(metadata.sync_hash)), LAMBDA co1 :
         IF ~co1.ok THEN HasChanged("err", co1.repo, FALSE)
         ELSE IF co1.repo.worktree[d] = Absent THEN HasChanged("err", co1.repo, FALSE)
         ELSE IF ~repo_text THEN HasChanged("err", co1.repo, TRUE)
         ELSE Let(checkout_ref(co1.repo, HeadRefName(r)), LAMBDA co2 :
              IF ~co2.ok THEN HasChanged("err", co2.repo, FALSE)
              ELSE IF local_content # co1.repo.worktree[d]
              THEN HasChanged("true", co2.repo, FALSE)
              ELSE HasChanged("false", co2.repo, FALSE)))

\* a variant of runs_stage that does not look at the stored hash
runs_stage_always(stage, stored_hash, current_hash, metadata) == stage # None

\* Dotfile::run_pre_install / run_post_install: whether the list is executed
runs_stage(stage, stored_hash, current_hash, metadata) ==
    /\ stage # None
    /\ ~(metadata # None /\ current_hash = stored_hash)

run_pre_install(d, metadata) ==
    runs_stage(pre_install[d], IF metadata = None THEN "" ELSE metadata[1].pre_install_hash,
               hash_pre_install(d), metadata)

run_post_install(d, metadata) ==
    runs_stage(post_install[d], IF metadata = None THEN "" ELSE metadata[1].post_install_hash,
               hash_post_install(d), metadata)

\* how a hook command can fail: "spawn" - Command::spawn (or the wait) returns
\* an error; "exit" - the command runs and exits with a non-zero status.
\* stage and at name the list and the position of the failing command.
NoHookErr == [stage |-> "none", at |-> 0, kind |-> "none"]
HookErrs ==
    {NoHookErr} \cup [stage : {"pre", "post"}, at : 1 .. MaxCommands, kind : {"spawn", "exit"}]

\* run_command_vec: the commands are spawned and waited for in order; only an
\* error of spawn or wait ends the loop, the exit status is not looked at.
\* ran counts the commands that were run.
run_command_vec(command_vec, fail_at, kind) ==
    IF kind = "spawn" /\ fail_at \in 1 .. Len(command_vec)
    THEN [ok |-> FALSE, ran |-> fail_at - 1]
    ELSE [ok |-> TRUE, ran |-> Len(command_vec)]

\* the run of one hook list in Dotfile::install: executed says whether
\* run_command_vec is called, failed which failure happened in it
run_stage(stage, list, executed, hook_err) ==
    IF ~executed THEN [executed |-> FALSE, ok |-> TRUE, ran |-> 0, failed |-> NoHookErr]
    ELSE Let(hook_err.stage = stage /\ hook_err.at \in 1 .. Len(list[1]), LAMBDA fails :
         Let(run_command_vec(list[1], IF fails THEN hook_err.at ELSE 0, hook_err.kind),
             LAMBDA rc :
             [executed |-> TRUE, ok |-> rc.ok, ran |-> rc.ran,
              failed |-> IF fails THEN hook_err ELSE NoHookErr]))

NoStage == [executed |-> FALSE, ok |-> TRUE, ran |-> 0, failed |-> NoHookErr]

\* a variant of recorded_hash that records the hash of a list that was skipped
recorded_hash_always(executed, hash) == hash

\* the hash run_pre_install / run_post_install return
recorded_hash(executed, hash) == IF executed THEN hash ELSE ""

\* a variant of installed_metadata that keeps the sync_hash it was given
installed_metadata_old_sync_hash(commit_hash, maybe_metadata, pre_install_hash, post_install_hash) ==
    DotfileMetadata(commit_hash,
                    IF maybe_metadata = None THEN commit_hash ELSE maybe_metadata[1].sync_hash,
                    pre_install_hash, post_install_hash)

\* the metadata Dotfile::install returns
\* a variant of installed_metadata that keeps the install_hash of an earlier install
installed_metadata_old_install_hash(commit_hash, maybe_metadata, pre_install_hash, post_install_hash) ==
    DotfileMetadata(IF maybe_metadata # None THEN maybe_metadata[1].install_hash ELSE commit_hash,
                    commit_hash, pre_install_hash, post_install_hash)

installed_metadata(commit_hash, maybe_metadata, pre_install_hash, post_install_hash) ==
    DotfileMetadata(commit_hash, commit_hash, pre_install_hash, post_install_hash)

\* what a Dotfile::install call did: status is "ok", "err" or "panic", target
\* the content of the target file afterwards, hc the has_changed call, pre and
\* post the runs of the two hook lists
InstallResult(status, hc, meta, target, pre, post) ==
    [status |-> status, repo |-> hc.repo, meta |-> meta, target |-> target,
     hc |-> hc.res, hc_head |-> hc.repo.head, hc_oid |-> HeadOid(hc.repo),
     unreadable |-> hc.unreadable, pre_ran |-> pre.executed, post_ran |-> post.executed,
     pre_cmds |-> pre.ran, post_cmds |-> post.ran,
     hook_failed |-> IF pre.failed # NoHookErr THEN pre.failed ELSE post.failed]

\* Dotfile::install after the refusal check: the hooks and the copy.
\* hook_err is the failure of a hook command, hc the has_changed call of the
\* refusal check.
install_steps(r, d, maybe_metadata, skip_install_steps, local_content, hook_err, hc) ==
    IF hc.res \in {"err", "true"}
    THEN InstallResult("err", hc, None, local_content, NoStage, NoStage)
    ELSE
    Let(run_stage("pre", pre_install[d],
                  ~skip_install_steps /\ run_pre_install(d, maybe_metadata), hook_err),
        LAMBDA pre :
    IF ~pre.ok THEN InstallResult("err", hc, None, local_content, pre, NoStage)
    ELSE IF hc.repo.worktree[d] = Absent
    THEN InstallResult("panic", hc, None, local_content, pre, NoStage)
    ELSE
    Let(run_stage("post", post_install[d],
                  ~skip_install_steps /\ run_post_install(d, maybe_metadata), hook_err),
        LAMBDA post :
    IF ~post.ok THEN InstallResult("err", hc, None, hc.repo.worktree[d], pre, post)
    ELSE InstallResult("ok", hc,
                       Some(installed_metadata(HeadOid(r), maybe_metadata,
                                recorded_hash(pre.executed, hash_pre_install(d)),
                                recorded_hash(post.executed, hash_post_install(d)))),
                       hc.repo.worktree[d], pre, post)))

\* a variant of install that never asks has_changed
install_unchecked(r, d, maybe_metadata, skip_install_steps, force, local_content, hook_err, repo_text) ==
    install_steps(r, d, maybe_metadata, skip_install_steps, local_content, hook_err,
                  HasChanged("none", r, FALSE))

\* Dotfile::install
install(r, d, maybe_metadata, skip_install_steps, force, local_content, hook_err, repo_text) ==
    Let(IF ~force /\ maybe_metadata # None
        THEN has_changed(r, d, maybe_metadata[1], local_content, repo_text)
        ELSE HasChanged("none", r, FALSE), LAMBDA hc :
        install_steps(r, d, maybe_metadata, skip_install_steps, local_content, hook_err, hc))

\* normal_merge after the index is free of conflicts: write the tree, create
\* the merge commit on HEAD, clean up the merge state
\* a merge that is committed as an ordinary commit on the main tip
merge_commit_parents_main_only(main_tip, feature_tip) == <<main_tip>>

merge_commit_parents(main_tip, feature_tip) == <<main_tip, feature_tip>>

normal_merge_commit(r, main_tip, feature_tip, time) ==
    IF r.conflicts # {} \/ HeadOid(r) # main_tip
    THEN [ok |-> FALSE, repo |-> r, oid |-> NoCommit]
    ELSE [ok |-> TRUE,
          repo |-> commit_on_head(r, r.index, merge_commit_parents(main_tip, feature_tip),
                                  <<"Merge">>, time),
          oid |-> Len(r.commits) + 1]

\* the metadata Dotfile::sync returns after the merge commit was created
merged_metadata(metadata, merge_oid) == [metadata EXCEPT !.install_hash = merge_oid]

\* a variant of naive_metadata that records the commit as installed from only
naive_metadata_no_sync_hash(d, oid) ==
    DotfileMetadata(oid, NoCommit, hash_pre_install(d), hash_post_install(d))

\* the metadata Dotfile::sync returns after a first (naive) sync
naive_metadata(d, oid) == DotfileMetadata(oid, oid, hash_pre_install(d), hash_post_install(d))

\* what a Dotfile::sync call did: status is "ok", "err" or "conflict", hc
\* the has_changed call
SyncResult(status, repo, meta, hc, main_tip, feature_tip) ==
    [status |-> status, repo |-> repo, meta |-> meta, hc |-> hc.res,
     hc_head |-> hc.repo.head, hc_oid |-> HeadOid(hc.repo), unreadable |-> hc.unreadable,
     main_tip |-> main_tip, feature_tip |-> feature_tip]

\* the first (naive) sync: copy the local file in, commit it on HEAD
sync_naive(r, d, local_content, time) ==
    Let(HasChanged("none", r, FALSE), LAMBDA nohc :
        IF local_content = Absent THEN SyncResult("err", r, None, nohc, NoCommit, NoCommit)
        ELSE Let(add_and_commit([r EXCEPT !.worktree[d] = local_content], Some({d}),
                                generate_commit_message(<<d>>), None, time), LAMBDA ac :
             IF ~ac.ok THEN SyncResult("err", ac.repo, None, nohc, NoCommit, NoCommit)
             ELSE SyncResult("ok", ac.repo, Some(naive_metadata(d, ac.oid)), nohc,
                             NoCommit, NoCommit)))

\* the step of the changed-content path at which the file system or git
\* returns an error: fs::copy, repo.branch, add_and_commit, repo.merge
SyncFailures == {"none", "copy", "branch", "commit", "merge"}

\* the sync of a changed dotfile: commit the local file on a branch made at
\* install_hash, return to the original ref, merge the branch into it
sync_changed(r1, d, metadata, local_content, time, hc, io_fail) ==
    Let(get_commit(r1, metadata.install_hash), LAMBDA parent :
    IF ~parent.ok THEN SyncResult("err", r1, None, hc, NoCommit, NoCommit)
    ELSE
    Let(checkout_ref(r1, RefHash(parent.oid)), LAMBDA co1 :
    IF ~co1.ok THEN SyncResult("err", co1.repo, None, hc, NoCommit, NoCommit)
    ELSE IF io_fail = "copy" THEN SyncResult("err", co1.repo, None, hc, NoCommit, NoCommit)
    ELSE IF io_fail = "branch"
    THEN SyncResult("err", [co1.repo EXCEPT !.worktree[d] = local_content], None, hc,
                    NoCommit, NoCommit)
    ELSE
    Let(checkout_ref([co1.repo EXCEPT !.worktree[d] = local_content,
                                      !.refs[new_branch_name(d)] = parent.oid],
                     RefName(new_branch_name(d))), LAMBDA co2 :
    IF ~co2.ok \/ io_fail = "commit"
    THEN SyncResult("err", co2.repo, None, hc, NoCommit, NoCommit)
    ELSE
    Let(add_and_commit(co2.repo, Some({d}), generate_commit_message(<<d>>),
                       Some(<<parent.oid>>), time), LAMBDA ac :
    IF ~ac.ok THEN SyncResult("err", ac.repo, None, hc, NoCommit, NoCommit)
    ELSE
    Let(checkout_ref(ac.repo, HeadRefName(r1)), LAMBDA co3 :
    IF ~co3.ok \/ io_fail = "merge"
    THEN SyncResult("err", co3.repo, None, hc, NoCommit, NoCommit)
    ELSE
    Let(repo_merge(co3.repo, ac.oid), LAMBDA mg :
    IF mg.conflicts # {}
    THEN SyncResult("conflict", mg, Some(metadata), hc, HeadOid(r1), ac.oid)
    ELSE
    Let(normal_merge_commit(mg, HeadOid(r1), ac.oid, time), LAMBDA mc :
    IF ~mc.ok THEN SyncResult("err", mc.repo, None, hc, HeadOid(r1), ac.oid)
    ELSE SyncResult("ok", mc.repo, Some(merged_metadata(metadata, mc.oid)), hc,
                    HeadOid(r1), ac.oid))))))))

\* Dotfile::sync up to the point where normal_merge either has a clean index
\* or starts waiting for the user
sync(r, d, maybe_metadata, local_content, time, repo_text, io_fail) ==
    IF maybe_metadata = None THEN sync_naive(r, d, local_content, time)
    ELSE Let(has_changed(r, d, maybe_metadata[1], local_content, repo_text), LAMBDA hc :
         IF hc.res = "err" THEN SyncResult("err", hc.repo, None, hc, NoCommit, NoCommit)
         ELSE IF hc.res = "false"
         THEN SyncResult("ok", hc.repo, Some(maybe_metadata[1]), hc, NoCommit, NoCommit)
         ELSE sync_changed(hc.repo, d, maybe_metadata[1], local_content, time, hc, io_fail))

\* ----------------------------------------------------------------- Manifest
\* names a caller may pass as target_dotfiles: the manifest's and a stranger
RequestNames == Dotfiles \cup {"tmux"}

\* Manifest::get_target_dotfiles, as the set of selected names; picked is the
\* answer to the interactive multi-select
get_target_dotfiles(target_dotfiles, all, picked) ==
    IF all THEN Dotfiles
    ELSE IF target_dotfiles # {} THEN {d \in Dotfiles : d \in target_dotfiles}
    ELSE picked

\* one way to write each call: target_dotfiles is read only when all is
\* false, the multi-select is shown only when target_dotfiles is empty too,
\* and every dotfile of the manifest is asked for with all
SelectionArgs(all, target_dotfiles, picked) ==
    /\ (all => target_dotfiles = {})
    /\ (all \/ target_dotfiles # {} => picked = {})
    /\ (~all => get_target_dotfiles(target_dotfiles, all, picked) # Dotfiles)

\* the orders in which a HashMap may yield a set of names
Orders(S) == {q \in [1..Cardinality(S) -> S] : Range(q) = S}

\* Dotfile::has_unexecuted_run_stages
has_unexecuted_run_stages(d, maybe_metadata) ==
    IF maybe_metadata # None
    THEN \/ (pre_install[d] # None /\ maybe_metadata[1].pre_install_hash # hash_pre_install(d))
         \/ (post_install[d] # None /\ maybe_metadata[1].post_install_hash # hash_post_install(d))
    ELSE pre_install[d] # None \/ post_install[d] # None

\* Manifest::has_unexecuted_run_stages over the selected names
manifest_has_unexecuted_run_stages(names, data) ==
    \E d \in Dotfiles : d \in names /\ has_unexecuted_run_stages(d, MapGet(data, d))

\* commit_hashes.iter().filter_map(find_commit).min_by_key(time): the first
\* of the resolvable hashes with the least commit time, NoCommit if none
first_commit(r, hashes) ==
    Let({i \in DOMAIN hashes : hashes[i] \in r.objects}, LAMBDA ok :
        IF ok = {} THEN NoCommit
        ELSE hashes[CHOOSE i \in ok :
                      \A j \in ok : \/ r.commits[hashes[i]].time < r.commits[hashes[j]].time
                                    \/ /\ r.commits[hashes[i]].time = r.commits[hashes[j]].time
                                       /\ i <= j])

\* repo.reset(target, Hard): the index and the working tree follow the branch
reset_hard(r, target) ==
    IF r.head.ref = ""
    THEN [r EXCEPT !.head = Detached(target), !.index = r.commits[target].tree,
                   !.worktree = r.commits[target].tree]
    ELSE [r EXCEPT !.refs[r.head.ref] = target, !.index = r.commits[target].tree,
                   !.worktree = r.commits[target].tree]

\* repo.reset(target, Soft): move the current branch, keep index and tree
reset_soft(r, target) ==
    IF r.head.ref = "" THEN [r EXCEPT !.head = Detached(target)]
    ELSE [r EXCEPT !.refs[r.head.ref] = target]

\* the metadata rewrite after the squash commit: commit_hash of every entry
\* that is selected (or of every entry when sync_all)
squash_rewrite(data, names, sync_all, commit_hash) ==
    [k \in DOMAIN data |->
        IF k \in names \/ sync_all THEN [data[k] EXCEPT !.install_hash = commit_hash]
        ELSE data[k]]

\* what the squash step did: status is "none" (nothing to squash), "err" or
\* "ok"; target is the commit the branch was reset to
SquashResult(status, repo, data, oid, target) ==
    [status |-> status, repo |-> repo, data |-> data, oid |-> oid, target |-> target]

\* the squash step of Manifest::sync
squash(r, data, hashes, names, sync_all, msg, time) ==
    Let(first_commit(r, hashes), LAMBDA fc :
        IF fc = NoCommit THEN SquashResult("none", r, data, NoCommit, NoCommit)
        ELSE IF r.commits[fc].parents = << >>
        THEN SquashResult("err", r, data, NoCommit, NoCommit)
        ELSE Let(add_and_commit(reset_soft(r, r.commits[fc].parents[1]), None, msg, None, time),
                 LAMBDA ac :
             IF ~ac.ok THEN SquashResult("err", ac.repo, data, NoCommit, r.commits[fc].parents[1])
             ELSE SquashResult("ok", ac.repo, squash_rewrite(data, names, sync_all, ac.oid),
                               ac.oid, r.commits[fc].parents[1])))

\* -------------------------------------------------------------------- state
VARIABLES
    commits, objects, refs, head, worktree, index, conflicts,  \* the cloned repository
    origin,      \* the commit refs/heads/master of the remote points to
    local,       \* content of each dotfile's target file on this machine
    storeFile,   \* the metadata store on disk: None, Some(map) or Torn
    now,         \* the clock commit signatures read
    ops,         \* workflows started and environment steps taken so far
    pc,          \* position of the running workflow
    run,         \* its parameters and local variables
    events,      \* what the current (or last) workflow did, in order
    result,      \* how the last workflow returned
    last,        \* the last Dotfile::install / Dotfile::sync call
    chain,       \* per dotfile, the successful installs that fed each other
    CREDENTIAL_CACHE  \* the process-wide (username, password) the prompts filled

repoVars == <<commits, objects, refs, head, worktree, index, conflicts>>
vars == <<commits, objects, refs, head, worktree, index, conflicts, origin, local, storeFile,
          now, ops, pc, run, events, result, last, chain, CREDENTIAL_CACHE>>

Repo == [commits |-> commits, objects |-> objects, refs |-> refs, head |-> head,
         worktree |-> worktree, index |-> index, conflicts |-> conflicts]

SetRepo(r) ==
    /\ commits' = r.commits
    /\ objects' = r.objects
    /\ refs' = r.refs
    /\ head' = r.head
    /\ worktree' = r.worktree
    /\ index' = r.index
    /\ conflicts' = r.conflicts

NoPending == [d |-> "", meta |-> None, main_tip |-> NoCommit, feature_tip |-> NoCommit]

IdleRun ==
    [kind |-> "none", queue |-> << >>, dotfiles |-> << >>, data |-> EmptyMap,
     commit_hashes |-> << >>, squash_commits |-> FALSE, sync_all |-> FALSE,
     commit_msg |-> None, force |-> FALSE, skip |-> FALSE, trust |-> FALSE, asked |-> FALSE,
     pending |-> NoPending, squashed |-> NoCommit, squash_target |-> NoCommit,
     start_commits |-> 0]

\* the store file after File::create truncated it and before
\* serde_yaml::to_writer wrote the last entry: empty, the header comment
\* alone, or part of the entries
Torn == <<"torn", "file">>

\* the record of a Dotfile call: its arguments and the state it was entered
\* in (_in), what has_changed left behind (_hc), what the call returned and
\* the state it left (_out)
NoCall ==
    [op |-> "none", d |-> "", force |-> FALSE, skip |-> FALSE, meta_in |-> None,
     local_in |-> Absent, unreadable |-> FALSE, head_in |-> Attached("master"),
     oid_in |-> NoCommit, ncommits_in |-> 0, sync_tree |-> Absent, status |-> "none",
     meta_out |-> None, hc |-> "none", head_hc |-> Attached("master"), oid_hc |-> NoCommit,
     conflicted |-> FALSE, head_out |-> Attached("master"), oid_out |-> NoCommit,
     ncommits_out |-> 0, pre_ran |-> FALSE, post_ran |-> FALSE, target_out |-> Absent,
     pre_cmds |-> 0, post_cmds |-> 0, hook_failed |-> NoHookErr,
     prior_pre |-> FALSE, prior_post |-> FALSE,
     install_known |-> FALSE, sync_known |-> FALSE, confirmed |-> FALSE]

\* the successful Dotfile::install calls of one dotfile with skip_install_steps
\* false, each given the metadata the one before returned: meta is what the
\* last of them returned, pre / post whether one of them executed the list
NoChain == [meta |-> None, pre |-> FALSE, post |-> FALSE]

\* the chain after a call that was given maybe_metadata and returned res
chain_after(old, maybe_metadata, skip_install_steps, res) ==
    IF res.status # "ok" THEN old
    ELSE IF skip_install_steps THEN NoChain
    ELSE IF maybe_metadata # None /\ maybe_metadata = old.meta
    THEN [meta |-> res.meta, pre |-> old.pre \/ res.pre_ran, post |-> old.post \/ res.post_ran]
    ELSE [meta |-> res.meta, pre |-> res.pre_ran, post |-> res.post_ran]

Event(e, d, ok) == [e |-> e, d |-> d, ok |-> ok]

\* what a trusted install from the first commit has stored for a dotfile
InstalledMetadata(d) == DotfileMetadata(1, 1, hash_pre_install(d), hash_post_install(d))

\* the store entry of tmux, a dotfile without hooks that was installed from
\* the first commit before the manifest dropped it
RemovedMetadata == DotfileMetadata(1, 1, "", "")

\* the stores an earlier install left: entries of the installed dotfiles of
\* the manifest, with or without the entry of the removed one
InstalledStores(installed) ==
    {[d \in installed \cup removed |->
         IF d \in Dotfiles THEN InstalledMetadata(d) ELSE RemovedMetadata] :
     removed \in IF installed = {"kitty"} THEN {{}, {"tmux"}} ELSE {{}}}

\* The remote's history is one commit.  The machine either has never run the
\* tool (no store; target files absent or written by hand), or an earlier
\* install from that commit has stored metadata for some dotfiles, whose
\* target files hold the repository content or a later edit of it.
Init ==
    /\ commits = << [parents |-> << >>, tree |-> [f \in Dotfiles |-> 1], time |-> 0,
                     msg |-> <<"init">>] >>
    /\ objects = {1}
    /\ refs = [b \in Branches |-> IF b = "master" THEN 1 ELSE NoCommit]
    /\ head = Attached("master")
    /\ worktree = [f \in Dotfiles |-> 1]
    /\ index = [f \in Dotfiles |-> 1]
    /\ conflicts = {}
    /\ origin = 1
    /\ \E installed \in SUBSET Dotfiles :
          /\ IF installed # {} THEN \E store \in InstalledStores(installed) : storeFile = Some(store)
             ELSE storeFile = None
          /\ local \in [Dotfiles -> FileStates]
          /\ \A d \in Dotfiles : IF d \in installed THEN local[d] \in {1, MaxContent}
                                  ELSE local[d] \in {Absent, MaxContent}
    /\ now = 1
    /\ ops = 0
    /\ pc = "idle"
    /\ run = IdleRun
    /\ events = << >>
    /\ result = "none"
    /\ last = NoCall
    /\ CREDENTIAL_CACHE = <<None, None>>
    /\ chain = [d \in Dotfiles |->
                   IF storeFile # None /\ d \in DOMAIN storeFile[1]
                   THEN [meta |-> Some(InstalledMetadata(d)), pre |-> pre_install[d] # None,
                         post |-> post_install[d] # None]
                   ELSE NoChain]

\* the content of d's repository file at the commit metadata.sync_hash,
\* Absent when there is no metadata or the hash names no commit
SyncedContent(d, maybe_metadata) ==
    IF maybe_metadata # None /\ maybe_metadata[1].sync_hash \in objects
    THEN commits[maybe_metadata[1].sync_hash].tree[d] ELSE Absent

\* ------------------------------------------------------------ Manifest::sync
\* a variant of AfterSyncLoop that pushes after the first dotfile
AfterSyncLoopPushEarly(queue, squash_commits) ==
    IF squash_commits THEN "squash" ELSE "push"

\* where Manifest::sync goes after one iteration of its loop
AfterSyncLoop(queue, squash_commits) ==
    IF queue # << >> THEN "sync" ELSE IF squash_commits THEN "squash" ELSE "push"

\* the workflow returns; what it was asked to do stays on record
EndRun(res) ==
    /\ pc' = "idle"
    /\ run' = [IdleRun EXCEPT !.kind = run.kind, !.dotfiles = run.dotfiles,
                              !.start_commits = run.start_commits]
    /\ result' = res

\* a variant of DotfileFailed that goes on with the next dotfile
DotfileFailedIsolated(e, d, res) ==
    /\ pc' = IF Tail(run.queue) # << >> THEN IF pc = "conflict" THEN "sync" ELSE pc
             ELSE "save"
    /\ run' = [run EXCEPT !.queue = Tail(run.queue)]
    /\ result' = result
    /\ events' = Append(events, Event(e, d, FALSE))

\* the error of one dotfile's install or sync leaves the loop and is returned
DotfileFailed(e, d, res) ==
    /\ EndRun(res)
    /\ events' = Append(events, Event(e, d, FALSE))

\* "Use naive sync?" is asked when no store was passed and use_naive_sync is
\* false; the event records the reply
NaivePrompt(has_store, use_naive_sync, answer) ==
    IF ~has_store /\ ~use_naive_sync THEN <<Event("naive?", "", answer)>> ELSE << >>

\* a variant of naive_sync_refused that does not read the user's reply
naive_sync_refused_unasked(has_store, use_naive_sync, answer) ==
    ~has_store /\ ~use_naive_sync

\* Manifest::sync returns "Aborting due to lack of dotfile metadata"
naive_sync_refused(has_store, use_naive_sync, answer) ==
    ~has_store /\ ~use_naive_sync /\ ~answer

\* the subcommand clones the remote into a temporary directory, then calls
\* Manifest::sync, here up to the start of its loop over the dotfiles.
\* answer is the user's reply to "Use naive sync?", asked when no store was
\* passed and use_naive_sync is false.
ManifestSyncStart(all, target_dotfiles, picked, squash_commits, commit_msg, use_naive_sync, answer) ==
    /\ pc = "idle"
    /\ ops < MaxOps
    /\ storeFile # Torn
    /\ (answer => storeFile = None /\ ~use_naive_sync)
    /\ \E order \in Orders(get_target_dotfiles(target_dotfiles, all, picked)) :
          IF naive_sync_refused(storeFile # None, use_naive_sync, answer)
          THEN /\ pc' = "idle"
               /\ run' = [IdleRun EXCEPT !.kind = "sync", !.dotfiles = order,
                                         !.start_commits = Len(commits)]
               /\ result' = "err"
               /\ events' = NaivePrompt(storeFile # None, use_naive_sync, answer)
                                \o <<Event("abort", "", FALSE)>>
          ELSE /\ pc' = AfterSyncLoop(order, squash_commits)
               /\ run' = [IdleRun EXCEPT !.kind = "sync", !.queue = order, !.dotfiles = order,
                             !.data = IF storeFile = None THEN EmptyMap ELSE storeFile[1],
                             !.squash_commits = squash_commits, !.sync_all = all,
                             !.commit_msg = commit_msg,
                             !.start_commits = Len(commits)]
               /\ events' = NaivePrompt(storeFile # None, use_naive_sync, answer)
               /\ result' = "running"
    /\ SetRepo(clone_repo(commits, origin))
    /\ last' = NoCall
    /\ ops' = ops + 1
    /\ UNCHANGED <<origin, local, storeFile, now>>
    /\ UNCHANGED <<chain, CREDENTIAL_CACHE>>

SyncCall(d, res) ==
    [NoCall EXCEPT !.op = "sync", !.d = d, !.meta_in = MapGet(run.data, d),
        !.local_in = local[d], !.unreadable = res.unreadable, !.head_in = head,
        !.oid_in = HeadOid(Repo), !.ncommits_in = Len(commits),
        !.sync_tree = SyncedContent(d, MapGet(run.data, d)),
        !.install_known = (MapGet(run.data, d) # None
                           /\ MapGet(run.data, d)[1].install_hash \in objects),
        !.sync_known = (MapGet(run.data, d) # None
                        /\ MapGet(run.data, d)[1].sync_hash \in objects),
        !.status = res.status, !.meta_out = res.meta,
        !.hc = res.hc, !.head_hc = res.hc_head, !.oid_hc = res.hc_oid,
        !.conflicted = (res.status = "conflict"), !.head_out = res.repo.head,
        !.oid_out = HeadOid(res.repo), !.ncommits_out = Len(res.repo.commits)]

\* one iteration of the loop: Dotfile::sync for the next selected dotfile
SyncDotfile(repo_text, io_fail) ==
    /\ pc = "sync"
    /\ run.queue # << >>
    /\ \E d \in {Head(run.queue)} :
       \E res \in {sync(Repo, d, MapGet(run.data, d), local[d], now, repo_text, io_fail)} :
          /\ Len(res.repo.commits) <= MaxCommits
          /\ SetRepo(res.repo)
          /\ now' = now + (Len(res.repo.commits) - Len(commits))
          /\ last' = SyncCall(d, res)
          /\ CASE res.status = "ok" ->
                    /\ pc' = AfterSyncLoop(Tail(run.queue), run.squash_commits)
                    /\ run' = [run EXCEPT !.queue = Tail(run.queue),
                                  !.data = MapInsert(run.data, d, res.meta[1]),
                                  !.commit_hashes = Append(run.commit_hashes, res.meta[1].install_hash)]
                    /\ events' = Append(events, Event("sync", d, TRUE))
                    /\ result' = result
               [] res.status = "conflict" ->
                    /\ pc' = "conflict"
                    /\ run' = [run EXCEPT !.pending = [d |-> d, meta |-> res.meta,
                                      main_tip |-> res.main_tip, feature_tip |-> res.feature_tip]]
                    /\ events' = events
                    /\ result' = result
               [] OTHER -> DotfileFailed("sync", d, "err")
    /\ UNCHANGED <<origin, local, storeFile, ops>>
    /\ UNCHANGED <<chain, CREDENTIAL_CACHE>>

\* the user, in the temporary repository, resolves one conflicted file and
\* adds it to the index
UserResolve(f, c) ==
    /\ pc = "conflict"
    /\ f \in conflicts
    /\ conflicts' = conflicts \ {f}
    /\ index' = [index EXCEPT ![f] = c]
    /\ worktree' = [worktree EXCEPT ![f] = c]
    /\ UNCHANGED <<commits, objects, refs, head, origin, local, storeFile, now, ops, pc, run,
                   events, result, last>>
    /\ UNCHANGED <<chain, CREDENTIAL_CACHE>>

\* the loop of normal_merge: a line of input arrives, the index is read again
\* (io_err: idx.read fails) and the merge is committed once it has no conflicts
PressEnter(io_err) ==
    /\ pc = "conflict"
    /\ IF io_err
       THEN /\ DotfileFailed("sync", run.pending.d, "err")
            /\ last' = [last EXCEPT !.status = "err", !.meta_out = None]
            /\ UNCHANGED <<repoVars, now>>
       ELSE IF conflicts # {}
       THEN UNCHANGED <<repoVars, now, pc, run, events, result, last>>
       ELSE \E p \in {run.pending} :
            \E mc \in {normal_merge_commit(Repo, p.main_tip, p.feature_tip, now)} :
            \E m \in {merged_metadata(p.meta[1], mc.oid)} :
               /\ Len(mc.repo.commits) <= MaxCommits
               /\ SetRepo(mc.repo)
               /\ IF mc.ok
                  THEN /\ now' = now + 1
                       /\ pc' = AfterSyncLoop(Tail(run.queue), run.squash_commits)
                       /\ run' = [run EXCEPT !.queue = Tail(run.queue), !.pending = NoPending,
                                     !.data = MapInsert(run.data, p.d, m),
                                     !.commit_hashes = Append(run.commit_hashes, m.install_hash)]
                       /\ events' = Append(events, Event("sync", p.d, TRUE))
                       /\ result' = result
                       /\ last' = [last EXCEPT !.status = "ok", !.meta_out = Some(m),
                                       !.head_out = mc.repo.head, !.oid_out = HeadOid(mc.repo),
                                       !.ncommits_out = Len(mc.repo.commits)]
                  ELSE /\ now' = now
                       /\ DotfileFailed("sync", p.d, "err")
                       /\ last' = [last EXCEPT !.status = "err", !.meta_out = None]
    /\ UNCHANGED <<origin, local, storeFile, ops>>
    /\ UNCHANGED <<chain, CREDENTIAL_CACHE>>

\* a squash message that is always generated from the names
SquashMessageGenerated ==
    generate_commit_message(run.dotfiles)

\* the message of the squash commit
SquashMessage ==
    IF run.commit_msg # None THEN run.commit_msg[1] ELSE generate_commit_message(run.dotfiles)

\* the squash of the commits collected by the loop
Squash ==
    /\ pc = "squash"
    /\ \E sq \in {squash(Repo, run.data, run.commit_hashes, Range(run.dotfiles), run.sync_all,
                         SquashMessage, now)} :
          /\ Len(sq.repo.commits) <= MaxCommits
          /\ SetRepo(sq.repo)
          /\ now' = now + (Len(sq.repo.commits) - Len(commits))
          /\ IF sq.status = "err"
             THEN /\ EndRun("err")
                  /\ events' = Append(events, Event("squash", "", FALSE))
             ELSE /\ pc' = "push"
                  /\ run' = [run EXCEPT !.data = sq.data, !.squashed = sq.oid,
                                !.squash_target = sq.target]
                  /\ events' = IF sq.status = "ok" THEN Append(events, Event("squash", "", TRUE))
                               ELSE events
                  /\ result' = result
    /\ UNCHANGED <<origin, local, storeFile, ops, last>>
    /\ UNCHANGED <<chain, CREDENTIAL_CACHE>>

\* push(repo): refs/heads/master to origin.  ok is what push returns; the
\* remote takes the update only when it is a fast-forward.
Push(ok) ==
    /\ pc = "push"
    /\ events' = Append(events, Event("push", "", ok))
    /\ IF ok
       THEN /\ origin' = IF origin \in Ancestors(commits, refs["master"]) THEN refs["master"]
                         ELSE origin
            /\ pc' = "save"
            /\ UNCHANGED <<run, result>>
       ELSE /\ origin' = origin
            /\ EndRun("err")
    /\ UNCHANGED <<repoVars, local, storeFile, now, ops, last>>
    /\ UNCHANGED <<chain, CREDENTIAL_CACHE>>

\* how far AggregatedDotfileMetadata::save gets: it returns, or the process
\* dies before File::create, or between File::create and the end of the write
SaveOutcomes == {"done", "crash_before_create", "crash_in_write"}

\* the store file that save leaves
save_file(old, data, outcome) ==
    CASE outcome = "done" -> Some(data)
      [] outcome = "crash_before_create" -> old
      [] OTHER -> Torn

\* AggregatedDotfileMetadata::save at the end of Manifest::sync / install
Save(outcome) ==
    /\ pc = "save"
    /\ storeFile' = save_file(storeFile, run.data, outcome)
    /\ IF outcome = "done"
       THEN /\ events' = Append(events, Event("save", "", TRUE))
            /\ EndRun("ok")
       ELSE /\ events' = events
            /\ EndRun("crash")
    /\ UNCHANGED <<repoVars, origin, local, now, ops, last>>
    /\ UNCHANGED <<chain, CREDENTIAL_CACHE>>

\* --------------------------------------------------------- Manifest::install
\* AggregatedDotfileMetadata::get: Ok(None) without a store file, an error
\* for a file that does not parse, Ok(Some(store)) otherwise
get(file) ==
    IF file = None THEN [ok |-> TRUE, val |-> None]
    ELSE IF file = Torn THEN [ok |-> FALSE, val |-> None]
    ELSE [ok |-> TRUE, val |-> file]

\* a get_or_create that starts afresh when the file does not parse
get_or_create_anew(file) ==
    Let(get(file), LAMBDA g :
        [ok |-> TRUE, val |-> IF g.ok /\ g.val # None THEN g.val[1] ELSE EmptyMap])

\* AggregatedDotfileMetadata::get_or_create
get_or_create(file) ==
    Let(get(file), LAMBDA g :
        IF ~g.ok THEN [ok |-> FALSE, val |-> EmptyMap]
        ELSE [ok |-> TRUE, val |-> IF g.val # None THEN g.val[1] ELSE EmptyMap])

\* a variant of AfterInstallLoop that saves the store after every dotfile
AfterInstallLoopSaveEach(queue) == "save"

\* where Manifest::install goes after one iteration of its loop
AfterInstallLoop(queue) == IF queue = << >> THEN "save" ELSE "install"

\* a prompt shown whenever a selected dotfile has unexecuted run stages
skip_prompt_untrusting(trust, names, data) ==
    manifest_has_unexecuted_run_stages(names, data)

\* whether Manifest::install shows "Skip running pre/post install?"
skip_prompt_shown(trust, names, data) ==
    ~trust /\ manifest_has_unexecuted_run_stages(names, data)

\* the subcommand clones the remote, then calls Manifest::install, here up to
\* the start of its loop.  skip_answer is the reply to "Skip running pre/post
\* install?"
ManifestInstallStart(all, target_dotfiles, picked, force_install, trust, skip_answer) ==
    /\ pc = "idle"
    /\ ops < MaxOps
    /\ \E order \in Orders(get_target_dotfiles(target_dotfiles, all, picked)) :
       \E store \in {get_or_create(storeFile)} :
          IF ~store.ok
          THEN \* "Could not parse manifest"
               /\ ~skip_answer
               /\ pc' = "idle"
               /\ run' = [IdleRun EXCEPT !.kind = "install", !.dotfiles = order,
                             !.start_commits = Len(commits)]
               /\ result' = "err"
          ELSE \E data \in {store.val} :
               /\ (skip_answer => skip_prompt_shown(trust, Range(order), data))
               /\ pc' = AfterInstallLoop(order)
               /\ run' = [IdleRun EXCEPT !.kind = "install", !.queue = order, !.dotfiles = order,
                             !.data = data, !.force = force_install, !.skip = skip_answer,
                             !.trust = trust,
                             !.asked = skip_prompt_shown(trust, Range(order), data),
                             !.start_commits = Len(commits)]
               /\ result' = "running"
    /\ SetRepo(clone_repo(commits, origin))
    /\ events' = << >>
    /\ last' = NoCall
    /\ ops' = ops + 1
    /\ UNCHANGED <<origin, local, storeFile, now>>
    /\ UNCHANGED <<chain, CREDENTIAL_CACHE>>

InstallCall(d, res) ==
    [NoCall EXCEPT !.op = "install", !.d = d, !.force = run.force, !.skip = run.skip,
        !.meta_in = MapGet(run.data, d), !.local_in = local[d], !.unreadable = res.unreadable,
        !.head_in = head, !.oid_in = HeadOid(Repo), !.ncommits_in = Len(commits),
        !.sync_tree = SyncedContent(d, MapGet(run.data, d)), !.status = res.status,
        !.meta_out = res.meta, !.hc = res.hc, !.head_hc = res.hc_head, !.oid_hc = res.hc_oid,
        !.head_out = res.repo.head, !.oid_out = HeadOid(res.repo),
        !.ncommits_out = Len(res.repo.commits),
        !.pre_ran = res.pre_ran, !.post_ran = res.post_ran, !.target_out = res.target,
        !.pre_cmds = res.pre_cmds, !.post_cmds = res.post_cmds,
        !.hook_failed = res.hook_failed,
        !.prior_pre = (~run.skip /\ MapGet(run.data, d) # None
                       /\ MapGet(run.data, d) = chain[d].meta /\ chain[d].pre),
        !.prior_post = (~run.skip /\ MapGet(run.data, d) # None
                        /\ MapGet(run.data, d) = chain[d].meta /\ chain[d].post)]

\* one iteration of the loop of Manifest::install.  overwrite is the reply to
\* "already exists on disk. Overwrite?"; hook_err the failing hook stage.
InstallDotfile(overwrite, hook_err, repo_text) ==
    /\ pc = "install"
    /\ run.queue # << >>
    /\ \E d \in {Head(run.queue)} :
       \E asked \in {local[d] # Absent /\ ~target_has_tilde[d] /\ ~run.force} :
          /\ (overwrite => asked)
          /\ IF asked /\ ~overwrite
             THEN /\ hook_err = NoHookErr
                  /\ repo_text
                  /\ pc' = AfterInstallLoop(Tail(run.queue))
                  /\ run' = [run EXCEPT !.queue = Tail(run.queue)]
                  /\ events' = Append(events, Event("skip", d, TRUE))
                  /\ UNCHANGED <<repoVars, local, result, last, chain>>
             ELSE \E res \in {install(Repo, d, MapGet(run.data, d), run.skip, run.force,
                                      local[d], hook_err, repo_text)} :
                  /\ SetRepo(res.repo)
                  /\ local' = [local EXCEPT ![d] = res.target]
                  /\ last' = [InstallCall(d, res) EXCEPT !.confirmed = overwrite]
                  /\ chain' = [chain EXCEPT ![d] = chain_after(chain[d], MapGet(run.data, d),
                                                               run.skip, res)]
                  /\ IF res.status = "ok"
                     THEN /\ pc' = AfterInstallLoop(Tail(run.queue))
                          /\ run' = [run EXCEPT !.queue = Tail(run.queue),
                                        !.data = MapInsert(run.data, d, res.meta[1])]
                          /\ events' = Append(events, Event("install", d, TRUE))
                          /\ result' = result
                     ELSE DotfileFailed("install", d, res.status)
    /\ UNCHANGED <<origin, storeFile, now, ops, CREDENTIAL_CACHE>>

\* -------------------------------------------------------------- environment
\* between two runs the temporary clone is gone and the observation of the
\* last run ends; the repository shown is what the next clone will hold
Forget(cs, tip) ==
    /\ SetRepo(clone_repo(cs, tip))
    /\ run' = IdleRun
    /\ events' = << >>
    /\ result' = "none"
    /\ last' = NoCall

\* the user edits (or deletes, or creates) a target file between two runs
LocalEdit(d, c) ==
    /\ pc = "idle"
    /\ ops < MaxOps
    /\ c # local[d]
    /\ local' = [local EXCEPT ![d] = c]
    /\ ops' = ops + 1
    /\ Forget(commits, origin)
    /\ UNCHANGED <<origin, storeFile, now, pc>>
    /\ UNCHANGED <<chain, CREDENTIAL_CACHE>>

\* another machine pushes a commit that changes one file
RemoteCommit(d, c) ==
    /\ pc = "idle"
    /\ ops < MaxOps
    /\ Len(commits) < MaxCommits
    /\ c # commits[origin].tree[d]
    /\ \E cs \in {Append(commits, [parents |-> <<origin>>,
                                   tree |-> [commits[origin].tree EXCEPT ![d] = c],
                                   time |-> now, msg |-> <<"remote">>])} :
          /\ origin' = Len(cs)
          /\ Forget(cs, Len(cs))
    /\ now' = now + 1
    /\ ops' = ops + 1
    /\ UNCHANGED <<local, storeFile, pc>>
    /\ UNCHANGED <<chain, CREDENTIAL_CACHE>>

\* the store file outlives the clone: after the remote history was rewritten
\* (or the file was edited by hand) a stored hash names no commit
EditStore(d, field) ==
    /\ pc = "idle"
    /\ ops < MaxOps
    /\ storeFile # None
    /\ storeFile # Torn
    /\ d \in DOMAIN storeFile[1]
    /\ storeFile[1][d][field] # NoCommit
    /\ storeFile' = Some([storeFile[1] EXCEPT ![d][field] = NoCommit])
    /\ ops' = ops + 1
    /\ Forget(commits, origin)
    /\ UNCHANGED <<origin, local, now, pc>>
    /\ UNCHANGED <<chain, CREDENTIAL_CACHE>>

\* the ways to select dotfiles
Selections ==
    {s \in [all : BOOLEAN, target_dotfiles : SUBSET RequestNames, picked : SUBSET Dotfiles] :
        SelectionArgs(s.all, s.target_dotfiles, s.picked)}

\* the squash policy of the manifest's Config with the commit_msg argument:
\* the message is read only when squashing
SquashArgs ==
    {q \in [squash_commits : BOOLEAN, commit_msg : {None, Some(<<"custom">>)}] :
        q.commit_msg # None => q.squash_commits}

\* the steps of Manifest::sync
SyncSteps ==
    \/ \E s \in Selections, q \in SquashArgs, naive \in BOOLEAN, ans \in BOOLEAN :
          ManifestSyncStart(s.all, s.target_dotfiles, s.picked, q.squash_commits, q.commit_msg,
                            naive, ans)
    \/ \E repo_text \in BOOLEAN, io_fail \in SyncFailures : SyncDotfile(repo_text, io_fail)
    \/ \E f \in Dotfiles, c \in FileStates : UserResolve(f, c)
    \/ \E io_err \in BOOLEAN : PressEnter(io_err)
    \/ Squash
    \/ \E ok \in BOOLEAN : Push(ok)

\* the steps of Manifest::install
InstallSteps ==
    \/ \E s \in Selections, force \in BOOLEAN, trust \in BOOLEAN, skip \in BOOLEAN :
          ManifestInstallStart(s.all, s.target_dotfiles, s.picked, force, trust, skip)
    \/ \E ow \in BOOLEAN, he \in HookErrs, repo_text \in BOOLEAN :
          InstallDotfile(ow, he, repo_text)

\* the save that ends a run
SaveSteps == \E outcome \in SaveOutcomes : Save(outcome)

\* what happens between two runs
Environment ==
    \/ \E d \in Dotfiles, c \in FileStates : LocalEdit(d, c)
    \/ \E d \in Dotfiles, c \in FileStates : RemoteCommit(d, c)
    \/ \E d \in Dotfiles, f \in {"install_hash", "sync_hash"} : EditStore(d, f)

Next == SyncSteps \/ InstallSteps \/ SaveSteps \/ Environment
Spec == Init /\ [][Next]_vars

\* sync runs only
NextSync == SyncSteps \/ SaveSteps \/ Environment
SpecSync == Init /\ [][NextSync]_vars

\* install runs only
NextInstall == InstallSteps \/ SaveSteps \/ Environment
SpecInstall == Init /\ [][NextInstall]_vars

\* ------------------------------------------- selection and trust, on their own
\* longest target_dotfiles list passed to get_target_dotfiles
MaxRequested == 3

\* the target_dotfiles arguments: lists of names, repetitions included
RequestedLists == UNION {[1 .. n -> RequestNames] : n \in 0 .. MaxRequested}

\* Vec::contains
contains(vec, x) == \E i \in DOMAIN vec : vec[i] = x

\* the entries of iter whose position satisfies keep, in iteration order
RECURSIVE filter_from(_, _, _)
filter_from(iter, keep, i) ==
    IF i > Len(iter) THEN << >>
    ELSE IF i \in keep THEN <<iter[i]>> \o filter_from(iter, keep, i + 1)
    ELSE filter_from(iter, keep, i + 1)

\* a selection that walks the requested names and looks each one up
RECURSIVE get_target_dotfiles_by_request(_, _, _, _)
get_target_dotfiles_by_request(data_iter, target_dotfiles, all, selected) ==
    IF target_dotfiles = << >> THEN << >>
    ELSE (IF contains(data_iter, Head(target_dotfiles)) THEN <<Head(target_dotfiles)>>
          ELSE << >>)
         \o get_target_dotfiles_by_request(data_iter, Tail(target_dotfiles), all, selected)

\* Manifest::get_target_dotfiles as the Vec it returns: data_iter is the order
\* in which self.data.iter() yields the names, selected the indices the
\* multi-select returned
get_target_dotfiles_vec(data_iter, target_dotfiles, all, selected) ==
    IF all THEN data_iter
    ELSE IF target_dotfiles # << >>
    THEN filter_from(data_iter, {i \in DOMAIN data_iter : contains(target_dotfiles, data_iter[i])}, 1)
    ELSE filter_from(data_iter, selected, 1)

\* the hook lists a manifest entry may declare: none, an empty list, or commands
HookLists == {None, Some(<< >>), Some(<<"mkdir conf">>), Some(<<"kitty reload", "echo ok">>)}
DotfileEntries == [pre_install : HookLists, post_install : HookLists]

\* the hashes a store may hold for a hook list
StoredHashes == {""} \cup {hash_command_vec(l[1]) : l \in HookLists \ {None}}
MetadataValues == {DotfileMetadata(1, 1, a, b) : a \in StoredHashes, b \in StoredHashes}

\* Dotfile::hash_pre_install / hash_post_install of a declared list
hash_install_list(list) == IF list # None THEN hash_command_vec(list[1]) ELSE ""

\* a check that looks at the manifest entry alone
has_unexecuted_run_stages_unrecorded(dotfile, maybe_metadata) ==
    dotfile.pre_install # None \/ dotfile.post_install # None

\* Dotfile::has_unexecuted_run_stages for any manifest entry
dotfile_has_unexecuted_run_stages(dotfile, maybe_metadata) ==
    IF maybe_metadata # None
    THEN \/ /\ dotfile.pre_install # None
            /\ maybe_metadata[1].pre_install_hash # hash_install_list(dotfile.pre_install)
         \/ /\ dotfile.post_install # None
            /\ maybe_metadata[1].post_install_hash # hash_install_list(dotfile.post_install)
    ELSE dotfile.pre_install # None \/ dotfile.post_install # None

\* commands of hook lists to hash, and the lists made of them
HookCommands == {"echo", "ls", "echols"}
CommandLists == UNION {[1 .. n -> HookCommands] : n \in 0 .. MaxCommands}

\* Dotfile::hash_pre_install on two manifest entries, the first one twice
HashInstallLists(a, b) ==
    /\ last' = [op |-> "hash_pre_install", a |-> a, b |-> b,
                hash_a |-> hash_install_list(a), hash_a_again |-> hash_install_list(a),
                hash_b |-> hash_install_list(b)]
    /\ UNCHANGED <<repoVars, origin, local, storeFile, now, ops, pc, run, events, result, chain,
                   CREDENTIAL_CACHE>>

\* ---- Config::generate_commit_message on text, a String being its characters
SINGLE_DOTFILE_COMMIT_FORMAT ==
    [before |-> <<"S", "y", "n", "c", " ">>, after |-> <<" ", "d", "o", "t", "f", "i", "l", "e">>]
MULTIPLE_DOTFILES_COMMIT_FORMAT ==
    [before |-> <<"S", "y", "n", "c", " ", "d", "o", "t", "f", "i", "l", "e", "s", " ", "f", "o", "r", " ">>, after |-> << >>]

\* format.replace("{}", text)
format_replace(format, text) == format.before \o text \o format.after

\* names.join(sep)
RECURSIVE join(_, _)
join(names, sep) ==
    IF names = << >> THEN << >>
    ELSE IF Len(names) = 1 THEN names[1]
    ELSE names[1] \o sep \o join(Tail(names), sep)

\* text.chars().rev().collect::<String>()
rev(text) == [i \in 1 .. Len(text) |-> text[Len(text) + 1 - i]]

\* text.replacen(",", to, 1): the first comma of text becomes to
replacen_comma(text, to) ==
    IF \E i \in DOMAIN text : text[i] = ","
    THEN Let(CHOOSE i \in DOMAIN text : text[i] = "," /\ \A j \in 1 .. i - 1 : text[j] # ",",
             LAMBDA i : SubSeq(text, 1, i - 1) \o to \o SubSeq(text, i + 1, Len(text)))
    ELSE text

\* Config::generate_commit_message, character by character
commit_message_text(commit_prefix, dotfile_names) ==
    IF Len(dotfile_names) = 1
    THEN commit_prefix \o format_replace(SINGLE_DOTFILE_COMMIT_FORMAT, dotfile_names[1])
    ELSE commit_prefix
         \o rev(replacen_comma(rev(format_replace(MULTIPLE_DOTFILES_COMMIT_FORMAT,
                                                  join(dotfile_names, <<",", " ">>))),
                               <<"d", "n", "a", " ">>))

\* dotfile names as a manifest may spell them, and commit prefixes
NameTexts == {<<"k">>, <<"n">>, <<"a", ",", "b">>}
PrefixTexts == {<< >>, <<"!", " ">>, <<"x", ",", " ">>}
NameLists == UNION {[1 .. n -> NameTexts] : n \in 1 .. MaxRequested}

\* a call of Config::generate_commit_message
GenerateCommitMessage(commit_prefix, dotfile_names) ==
    /\ last' = [op |-> "generate_commit_message", commit_prefix |-> commit_prefix,
                dotfile_names |-> dotfile_names,
                out |-> commit_message_text(commit_prefix, dotfile_names)]
    /\ UNCHANGED <<repoVars, origin, local, storeFile, now, ops, pc, run, events, result, chain,
                   CREDENTIAL_CACHE>>

\* a call of Manifest::get_target_dotfiles
GetTargetDotfiles(data_iter, target_dotfiles, all, selected) ==
    /\ last' = [op |-> "get_target_dotfiles", all |-> all, requested |-> target_dotfiles,
                data_iter |-> data_iter, selected |-> selected,
                out |-> get_target_dotfiles_vec(data_iter, target_dotfiles, all, selected)]
    /\ UNCHANGED <<repoVars, origin, local, storeFile, now, ops, pc, run, events, result, chain,
                   CREDENTIAL_CACHE>>

\* a call of Dotfile::has_unexecuted_run_stages
HasUnexecutedRunStages(dotfile, maybe_metadata) ==
    /\ last' = [op |-> "has_unexecuted_run_stages", dotfile |-> dotfile,
                metadata |-> maybe_metadata,
                out |-> dotfile_has_unexecuted_run_stages(dotfile, maybe_metadata)]
    /\ UNCHANGED <<repoVars, origin, local, storeFile, now, ops, pc, run, events, result, chain,
                   CREDENTIAL_CACHE>>

\* the two functions applied to every argument, outside any workflow
InitPure == Init /\ storeFile = None /\ local = [d \in Dotfiles |-> Absent]
NextPure ==
    \/ \E data_iter \in Orders(Dotfiles), target_dotfiles \in RequestedLists, all \in BOOLEAN,
          selected \in SUBSET (1 .. Cardinality(Dotfiles)) :
          GetTargetDotfiles(data_iter, target_dotfiles, all, selected)
    \/ \E dotfile \in DotfileEntries, maybe_metadata \in {None} \cup {Some(m) : m \in MetadataValues} :
          HasUnexecutedRunStages(dotfile, maybe_metadata)
    \/ \E a, b \in {None} \cup {Some(l) : l \in CommandLists} : HashInstallLists(a, b)
    \/ \E commit_prefix \in PrefixTexts, dotfile_names \in NameLists :
          GenerateCommitMessage(commit_prefix, dotfile_names)
SpecPure == InitPure /\ [][NextPure]_vars

\* ------------------------------------------- the store file as YAML text
\* A String is the sequence of its characters.  The file holds lines: the
\* header comment, then one mapping entry per dotfile name (or the flow
\* mapping "{}" of an empty store).
Digits == {"0", "1", "2", "3", "4", "5", "6", "7", "8", "9"}

\* str::parse::<i64>: an optional sign and digits
parses_as_i64(text) ==
    /\ text # << >>
    /\ \E from \in {IF text[1] \in {"+", "-"} THEN 2 ELSE 1} :
          /\ from <= Len(text)
          /\ \A i \in from .. Len(text) : text[i] \in Digits

\* str::parse::<f64>: digits around a point or an exponent mark
parses_as_f64(text) ==
    \E i \in DOMAIN text :
        /\ text[i] \in {".", "e", "E"}
        /\ parses_as_i64(SubSeq(text, 1, i - 1))
        /\ i < Len(text)
        /\ \A j \in i + 1 .. Len(text) : text[j] \in Digits

\* plain scalars YAML reads as null or as a boolean
NullTexts == {<<"~">>, <<"n", "u", "l", "l">>}
BoolTexts == {<<"t", "r", "u", "e">>, <<"f", "a", "l", "s", "e">>}

\* whether the emitter writes a string in quotes: it is empty, begins or ends
\* with a space, holds a character that cannot stand in a plain scalar, or
\* would be read as something other than a string
need_quotes(text) ==
    \/ text = << >>
    \/ text[1] = " " \/ text[Len(text)] = " "
    \/ \E i \in DOMAIN text : text[i] \in {":", "#", ",", "[", "]", "{", "}", "'"}
    \/ text \in NullTexts \cup BoolTexts
    \/ parses_as_i64(text)
    \/ parses_as_f64(text)

\* an emitter that writes every string plain
to_scalar_plain(text) == [quoted |-> FALSE, text |-> text]

\* Serialize for String: the scalar serde_yaml writes
to_scalar(text) == [quoted |-> need_quotes(text), text |-> text]

\* the type the parser gives a scalar: a quoted one is a string, a plain one
\* is resolved by its looks
scalar_type(scalar) ==
    IF scalar.quoted THEN "str"
    ELSE IF scalar.text = << >> \/ scalar.text \in NullTexts THEN "null"
    ELSE IF scalar.text \in BoolTexts THEN "bool"
    ELSE IF parses_as_i64(scalar.text) THEN "int"
    ELSE IF parses_as_f64(scalar.text) THEN "float"
    ELSE "str"

\* the fields of DotfileMetadata, all of them Strings
FieldNames == {"install_hash", "sync_hash", "pre_install_hash", "post_install_hash"}

\* serde_yaml::to_writer(file, &self): the flattened map, entry by entry in
\* the order the HashMap yields its keys
to_writer(data, order) ==
    IF order = << >> THEN <<[kind |-> "empty_map"]>>
    ELSE [i \in 1 .. Len(order) |->
             [kind |-> "entry", key |-> to_scalar(order[i]),
              value |-> [f \in FieldNames |-> to_scalar(data[order[i]][f])]]]

\* AggregatedDotfileMetadata::save: File::create empties the file, then the
\* header comment and the document are written
save_text(data, order) == <<[kind |-> "comment"]>> \o to_writer(data, order)

\* serde_yaml::from_reader into AggregatedDotfileMetadata: comments are
\* skipped; a key or a field that is not a string is an error
from_reader(lines) ==
    Let({i \in DOMAIN lines : lines[i].kind = "entry"}, LAMBDA entries :
        IF \E i \in entries :
              \/ scalar_type(lines[i].key) # "str"
              \/ \E f \in FieldNames : scalar_type(lines[i].value[f]) # "str"
        THEN [ok |-> FALSE, val |-> None]
        ELSE [ok |-> TRUE,
              val |-> Some([k \in {lines[i].key.text : i \in entries} |->
                               [f \in FieldNames |->
                                   lines[CHOOSE i \in entries : lines[i].key.text = k].value[f].text]])])

\* AggregatedDotfileMetadata::get on the text of the file
get_text(file) == IF file = None THEN [ok |-> TRUE, val |-> None] ELSE from_reader(file[1])

\* hashes as the store spells them: hexadecimal text that has letters, has
\* digits only or looks like a number with an exponent; a hook hash may be
\* empty
MetadataTexts ==
    {[install_hash |-> a, sync_hash |-> b, pre_install_hash |-> c, post_install_hash |-> d] :
        a \in {<<"1", "f">>, <<"1", "2">>}, b \in {<<"1", "f">>, <<"1", "2">>},
        c \in {<< >>, <<"1", "e", "2">>}, d \in {<< >>, <<"1", "e", "2">>}}

\* the stores over two dotfile names, one of them made of digits
StoreTexts == UNION {[names -> MetadataTexts] : names \in SUBSET {<<"k">>, <<"4", "2">>}}

\* save() followed by get()
SaveThenGet(data, order) ==
    /\ last' = [op |-> "save_get", data |-> data, file |-> save_text(data, order),
                out |-> get_text(Some(save_text(data, order)))]
    /\ UNCHANGED <<repoVars, origin, local, storeFile, now, ops, pc, run, events, result, chain,
                   CREDENTIAL_CACHE>>

NextStore == \E data \in StoreTexts : \E order \in Orders(DOMAIN data) : SaveThenGet(data, order)
SpecStore == InitPure /\ [][NextStore]_vars

\* ------------------------------------------------------ the credential cache
\* what the user can type at the two prompts ("" is the enter key alone: the
\* username prompt then yields its default, the password prompt the empty
\* password), and the prompt at which interact() returns an error
Usernames == {"git", "dob"}
TypedTexts == {"", "dob", "hunter2", "s3cret"}
PromptFailures == {"none", "username", "password"}

\* what a CredentialUI call did: the tuple it returned (when ok), the cache
\* it left, and the prompts it showed
Asked(ok, user, password, cache, prompts) ==
    [ok |-> ok, user |-> user, password |-> password, cache |-> cache, prompts |-> prompts]

\* a passphrase prompt that is always shown and always stores its answer
ask_ssh_passphrase_uncached(cache, typed_password, fail_at) ==
    IF fail_at = "password" THEN Asked(FALSE, "", "", cache, {"password"})
    ELSE Asked(TRUE, "", typed_password, <<cache[1], Some(typed_password)>>, {"password"})

\* CredentialUIDialoguer::ask_ssh_passphrase
ask_ssh_passphrase(cache, typed_password, fail_at) ==
    IF cache[2] # None THEN Asked(TRUE, "", cache[2][1], cache, {})
    ELSE IF fail_at = "password" THEN Asked(FALSE, "", "", cache, {"password"})
    ELSE Asked(TRUE, "", typed_password, <<cache[1], Some(typed_password)>>, {"password"})

\* CredentialUIDialoguer::ask_user_password: the username first, then the
\* password, each from the cache when it is there
ask_user_password(cache, username, typed_user, typed_password, fail_at) ==
    IF cache[1] = None /\ fail_at = "username"
    THEN Asked(FALSE, "", "", cache, {"username"})
    ELSE Let(IF cache[1] # None THEN cache[1][1]
             ELSE IF typed_user = "" THEN username ELSE typed_user, LAMBDA user :
         Let(IF cache[1] # None THEN {} ELSE {"username"}, LAMBDA shown :
             IF cache[2] # None THEN Asked(TRUE, user, cache[2][1], <<Some(user), cache[2]>>, shown)
             ELSE IF fail_at = "password"
             THEN Asked(FALSE, "", "", <<Some(user), None>>, shown \cup {"password"})
             ELSE Asked(TRUE, user, typed_password, <<Some(user), Some(typed_password)>>,
                        shown \cup {"password"})))

\* the credential handler asks for a username and a password
AskUserPassword(username, typed_user, typed_password, fail_at) ==
    /\ \E res \in {ask_user_password(CREDENTIAL_CACHE, username, typed_user, typed_password,
                                     fail_at)} :
          /\ CREDENTIAL_CACHE' = res.cache
          /\ last' = [op |-> "ask_user_password", username |-> username, ok |-> res.ok,
                      user |-> res.user,
                      password |-> res.password, prompts |-> res.prompts]
    /\ UNCHANGED <<repoVars, origin, local, storeFile, now, ops, pc, run, events, result, chain>>

\* the credential handler asks for the passphrase of an ssh key
AskSshPassphrase(typed_password, fail_at) ==
    /\ \E res \in {ask_ssh_passphrase(CREDENTIAL_CACHE, typed_password, fail_at)} :
          /\ CREDENTIAL_CACHE' = res.cache
          /\ last' = [op |-> "ask_ssh_passphrase", username |-> "", ok |-> res.ok,
                      user |-> res.user,
                      password |-> res.password, prompts |-> res.prompts]
    /\ UNCHANGED <<repoVars, origin, local, storeFile, now, ops, pc, run, events, result, chain>>

\* the next invocation of the tool is a new process: lazy_static builds the
\* cache anew
NewProcess ==
    /\ CREDENTIAL_CACHE # <<None, None>>
    /\ CREDENTIAL_CACHE' = <<None, None>>
    /\ last' = [op |-> "new_process", username |-> "", ok |-> TRUE, user |-> "",
                password |-> "", prompts |-> {}]
    /\ UNCHANGED <<repoVars, origin, local, storeFile, now, ops, pc, run, events, result, chain>>

NextCredentials ==
    \/ \E username \in Usernames, typed_user \in TypedTexts, typed_password \in TypedTexts,
          fail_at \in PromptFailures :
          AskUserPassword(username, typed_user, typed_password, fail_at)
    \/ \E typed_password \in TypedTexts, fail_at \in PromptFailures :
          AskSshPassphrase(typed_password, fail_at)
    \/ NewProcess
SpecCredentials == InitPure /\ [][NextCredentials]_vars

\* ------------------------------------------------------------------- claims
\* C1: a Dotfile::sync called without prior metadata that succeeds has created
\* exactly one commit, whose only parent is the commit HEAD named at the
\* call and whose copy of the dotfile's file is the local content; the
\* metadata it returns has install_hash and sync_hash both naming that commit
C1_NaiveSyncCommitsOnce ==
    (last.op = "sync" /\ last.meta_in = None /\ last.status = "ok") =>
        /\ last.ncommits_out = last.ncommits_in + 1
        /\ commits[last.ncommits_out].parents = <<last.oid_in>>
        /\ commits[last.ncommits_out].tree[last.d] = last.local_in
        /\ last.meta_out # None
        /\ last.meta_out[1].install_hash = last.ncommits_out
        /\ last.meta_out[1].sync_hash = last.ncommits_out

C1_NaiveSyncDone ==
    /\ last.op = "sync" /\ last.meta_in = None /\ last.status = "ok"
    /\ last.local_in = MaxContent
    /\ commits[last.oid_out].tree[last.d] = MaxContent
    /\ commits[last.oid_in].tree[last.d] # MaxContent

C3_MergedSyncNamesMergeCommit ==
    (last.op = "sync" /\ last.hc = "true" /\ last.status = "ok") =>
        /\ Len(commits[last.oid_out].parents) = 2
        /\ last.meta_out[1].install_hash = last.oid_out
        /\ last.meta_out[1].sync_hash = last.oid_out

\* C4: a Dotfile::install called with metadata and force = false whose local
\* file differs from the repository file at sync_hash returns an error, runs
\* neither the pre-install nor the post-install commands and leaves the
\* target file as it was
C4_InstallRefusesLocalChanges ==
    (/\ last.op = "install" /\ last.meta_in # None /\ ~last.force
     /\ last.sync_tree # Absent
     /\ last.local_in # last.sync_tree) =>
        /\ last.status = "err"
        /\ ~last.pre_ran
        /\ ~last.post_ran
        /\ last.target_out = last.local_in
        /\ local[last.d] = last.local_in

C4_InstallRefused ==
    /\ last.op = "install" /\ last.meta_in # None /\ ~last.force
    /\ last.sync_tree # Absent
    /\ last.local_in \notin {Absent, last.sync_tree}
    /\ last.hc = "true"
    /\ last.status = "err"
    /\ commits[last.oid_in].tree[last.d] # last.local_in

\* C5: whenever has_changed returns, with a value or with an error raised
\* after its first checkout, HEAD names the reference and the commit it named
\* when has_changed was called
C5_HasChangedRestoresHead ==
    (last.op \in {"sync", "install"} /\ last.hc # "none") =>
        /\ last.head_hc = last.head_in
        /\ last.oid_hc = last.oid_in

\* commit k of history cs merges two tips that changed a file in different ways
C6_MergesConflictingTips(cs, k) ==
    /\ Len(cs[k].parents) = 2
    /\ \E f \in Dotfiles :
          \E o \in {cs[cs[k].parents[1]].tree[f]},
             t \in {cs[cs[k].parents[2]].tree[f]},
             b \in {BaseTree(cs, merge_base(cs, cs[k].parents[1], cs[k].parents[2]))[f]} :
             o # t /\ b # o /\ b # t

\* C6: while the index holds conflicts normal_merge creates no merge commit
\* and does not return success: it goes on only by a line of input, after
\* which the index is read again, and the merge commit of two conflicting
\* tips is created only by that step, taken with an index free of conflicts
C6_ConflictsBlockMerge ==
    [][ /\ (pc = "conflict" /\ conflicts # {}) =>
              /\ commits' = commits
              /\ refs' = refs
              /\ head' = head
              /\ last'.status # "ok"
              /\ \/ pc' = "conflict"
                 \/ pc' = "idle" /\ result' = "err"
        /\ (\E k \in (Len(commits) + 1) .. Len(commits') :
                C6_MergesConflictingTips(commits', k)) =>
              /\ pc = "conflict"
              /\ conflicts = {}
              /\ last.conflicted
              /\ last'.conflicted /\ last'.status = "ok"
      ]_vars

C6_MergedAfterResolution ==
    /\ last.op = "sync" /\ last.conflicted /\ last.status = "ok"
    /\ Len(commits[last.oid_out].parents) = 2
    /\ last.ncommits_out = last.oid_out

\* what the loop of Manifest::sync collected: each selected dotfile produced a
\* commit in this run
C7_EachSyncCommitted ==
    /\ Len(run.dotfiles) >= 2
    /\ Len(run.commit_hashes) = Len(run.dotfiles)
    /\ \A i \in DOMAIN run.commit_hashes : run.commit_hashes[i] > run.start_commits
    /\ \A i, j \in DOMAIN run.commit_hashes :
          i # j => commits[run.commit_hashes[i]].time # commits[run.commit_hashes[j]].time

C7_Earliest ==
    CHOOSE h \in Range(run.commit_hashes) :
        \A g \in Range(run.commit_hashes) : commits[h].time <= commits[g].time

\* C7: when several dotfiles were synced, each producing a commit, and
\* squashing is on, the repository was soft-reset to the parent of the
\* earliest of these commits and exactly one commit was created on it, which
\* holds every synced dotfile's new content; the stored metadata of every
\* synced dotfile points at that commit
C7_SquashReplacesSyncCommits ==
    (/\ pc \in {"push", "save"} /\ run.kind = "sync"
     /\ run.squashed # NoCommit
     /\ C7_EachSyncCommitted) =>
        /\ run.squash_target = commits[C7_Earliest].parents[1]
        /\ run.squashed = Len(commits)
        /\ refs["master"] = run.squashed
        /\ commits[run.squashed].parents = <<run.squash_target>>
        /\ commits[run.squashed].tree =
              commits[run.commit_hashes[Len(run.commit_hashes)]].tree
        /\ \A d \in Range(run.dotfiles) :
              /\ run.data[d].install_hash = run.squashed
              /\ run.data[d].sync_hash = run.squashed

C8_Aborted == Event("abort", "", FALSE) \in Range(events)

\* C8 as stated: a Manifest::sync called without a store and with
\* use_naive_sync = false aborts before any sync: it syncs no dotfile, creates
\* no commit, pushes nothing and saves no store
C8_NoStoreAlwaysAborts ==
    (run.kind = "sync" /\ events # << >> /\ events[1].e = "naive?") =>
        /\ C8_Aborted
        /\ pc = "idle" /\ result = "err"
        /\ Len(commits) = run.start_commits
        /\ storeFile = None

\* C8: a Manifest::sync called without a store and with use_naive_sync = false
\* asks "Use naive sync?"; when the reply is no it aborts before any sync (no
\* dotfile synced, no commit, no push, no store saved), when the reply is yes
\* it goes on as a naive sync; it aborts in no other case
C8_NoStoreAbortsUnlessConfirmed ==
    /\ (run.kind = "sync" /\ events # << >> /\ events[1] = Event("naive?", "", FALSE)) =>
          /\ events = <<Event("naive?", "", FALSE), Event("abort", "", FALSE)>>
          /\ pc = "idle" /\ result = "err"
          /\ Len(commits) = run.start_commits
          /\ refs["master"] = origin
          /\ storeFile = None
          /\ last.op = "none"
    /\ (run.kind = "sync" /\ events # << >> /\ events[1] = Event("naive?", "", TRUE)) =>
          /\ ~C8_Aborted
          /\ result # "none"
          /\ \A i \in DOMAIN events : i > 1 => events[i].e # "naive?"
    /\ C8_Aborted => events[1] = Event("naive?", "", FALSE)

C8_DeclinedAndAborted ==
    /\ run.kind = "sync"
    /\ events = <<Event("naive?", "", FALSE), Event("abort", "", FALSE)>>
    /\ run.dotfiles # << >>
    /\ \E d \in Range(run.dotfiles) : local[d] # Absent

C8_ConfirmedAndSynced ==
    /\ run.kind = "sync"
    /\ Len(events) >= 2
    /\ events[1] = Event("naive?", "", TRUE)
    /\ events[2].e = "sync" /\ events[2].ok

\* the dotfiles whose turn has come in the loop of the current run
C9_Processed == {i \in DOMAIN events : events[i].e \in {"sync", "install", "skip"}}

\* C9: in Manifest::install and in Manifest::sync the error of one dotfile's
\* install or sync ends the loop: no later dotfile is processed, nothing is
\* pushed or saved after it, and the error is what the operation returns
C9_FirstErrorEndsTheLoop ==
    \A i \in DOMAIN events :
        (events[i].e \in {"sync", "install"} /\ ~events[i].ok) =>
            /\ i = Len(events)
            /\ pc = "idle"
            /\ result = last.status
            /\ result \in {"err", "panic"}
            /\ last.d = events[i].d
            /\ run.kind = IF events[i].e = "sync" THEN "sync" ELSE "install"

C9_SyncFailedWithDotfilesLeft ==
    /\ events # << >>
    /\ events[Len(events)] \in {Event("sync", d, FALSE) : d \in Dotfiles}
    /\ Cardinality(C9_Processed) < Len(run.dotfiles)
    /\ result = "err"

C9_InstallFailedWithDotfilesLeft ==
    /\ events # << >>
    /\ events[Len(events)] \in {Event("install", d, FALSE) : d \in Dotfiles}
    /\ Cardinality(C9_Processed) < Len(run.dotfiles)
    /\ result = "err"

C10_Rank(e) ==
    CASE e = "naive?" -> 0
      [] e = "abort" -> 1
      [] e = "sync" -> 2
      [] e = "squash" -> 3
      [] e = "push" -> 4
      [] e = "save" -> 5
      [] OTHER -> 6

\* the dotfiles synced so far, in order
C10_Synced == SelectSeq(events, LAMBDA ev : ev.e = "sync" /\ ev.ok)

C10_Order ==
    /\ \A i, j \in DOMAIN events :
          i < j => /\ C10_Rank(events[i].e) <= C10_Rank(events[j].e)
                   /\ C10_Rank(events[i].e) = C10_Rank(events[j].e) => events[i].e = "sync"
    /\ (\E i \in DOMAIN events : events[i].e \in {"squash", "push", "save"}) =>
          [i \in DOMAIN C10_Synced |-> C10_Synced[i].d] = run.dotfiles
    /\ Event("save", "", TRUE) \in Range(events) => Event("push", "", TRUE) \in Range(events)
    /\ (run.kind = "sync" /\ result = "ok") =>
          /\ events[Len(events)] = Event("save", "", TRUE)
          /\ storeFile # None
    /\ Event("push", "", FALSE) \in Range(events) =>
          /\ events[Len(events)] = Event("push", "", FALSE)
          /\ pc = "idle" /\ result = "err"
          /\ (run.start_commits + 1) .. Len(commits) \subseteq objects
          /\ refs["master"] \in objects

C10_FailedPush ==
    (pc = "push" /\ result' = "err") =>
        /\ UNCHANGED repoVars
        /\ storeFile' = storeFile
        /\ origin' = origin
        /\ pc' = "idle"
        /\ events' = Append(events, Event("push", "", FALSE))

\* C10: Manifest::sync does, in this order, the syncs of all selected
\* dotfiles, the optional squash, exactly one push and exactly one save of the
\* store; when the push fails the error is returned, the store is not saved
\* and the commits made in the repository stay
C10_SyncThenSquashThenPushThenSave == []C10_Order /\ [][C10_FailedPush]_vars

C10_PushedAndSaved ==
    /\ run.kind = "sync" /\ result = "ok"
    /\ Len(run.dotfiles) = 2
    /\ Len(events) = 5
    /\ events[3] = Event("squash", "", TRUE)
    /\ events[4] = Event("push", "", TRUE)

C10_PushFailedAfterCommit ==
    /\ run.kind = "sync" /\ result = "err"
    /\ events # << >>
    /\ events[Len(events)] = Event("push", "", FALSE)
    /\ Len(commits) > run.start_commits
    /\ storeFile = None
    /\ \E d \in Range(run.dotfiles) : commits[refs["master"]].tree[d] = local[d]
                                       /\ commits[origin].tree[d] # local[d]

\* the turns of the loop of Manifest::install taken so far
C11_Turns == SelectSeq(events, LAMBDA ev : ev.e \in {"install", "skip"})

C11_SavedAtTheEnd ==
    /\ \A i \in DOMAIN events :
          events[i].e = "save" =>
             /\ i = Len(events)
             /\ pc = "idle" /\ result = "ok"
             /\ \A j \in 1 .. (i - 1) : events[j].e \in {"install", "skip"} /\ events[j].ok
             /\ [j \in DOMAIN C11_Turns |-> C11_Turns[j].d] = run.dotfiles
    /\ (run.kind = "install" /\ result = "ok") =>
          /\ events # << >>
          /\ events[Len(events)] = Event("save", "", TRUE)
          /\ storeFile # None

C11_NoSaveInTheLoop ==
    (run.kind = "install" /\ pc = "install") => storeFile' = storeFile

\* C11: a Manifest::install that returns successfully has saved the store
\* exactly once, after the last selected dotfile had its turn, also when
\* dotfiles were skipped at the overwrite prompt; the store is never written
\* between two dotfiles
C11_InstallSavesOnceAtTheEnd == []C11_SavedAtTheEnd /\ [][C11_NoSaveInTheLoop]_vars

C11_SavedAfterSkip ==
    /\ run.kind = "install" /\ result = "ok"
    /\ Len(events) = 3
    /\ events[1].e = "skip"
    /\ events[2].e = "install"
    /\ events[3].e = "save"

C13_Due(list, maybe_metadata, field) ==
    /\ list # None
    /\ \/ maybe_metadata = None
       \/ maybe_metadata[1][field] # hash_command_vec(list[1])

\* C13: a Dotfile::install with skip_install_steps false executes a present
\* pre_install (post_install) list if and only if it was given no metadata or
\* the stored hash of the list differs from the hash of the current list;
\* with skip_install_steps true it executes no hook command
C13_HooksRunWhenDue ==
    (last.op = "install") =>
        /\ last.hc \notin {"err", "true"} =>
              (last.pre_ran <=>
                  ~last.skip /\ C13_Due(pre_install[last.d], last.meta_in, "pre_install_hash"))
        /\ (last.status = "ok" \/ last.hook_failed.stage = "post") =>
              (last.post_ran <=>
                  ~last.skip /\ C13_Due(post_install[last.d], last.meta_in, "post_install_hash"))
        /\ last.hc \in {"err", "true"} => ~last.pre_ran /\ ~last.post_ran
        /\ last.skip => /\ ~last.pre_ran /\ ~last.post_ran
                        /\ last.pre_cmds = 0 /\ last.post_cmds = 0
        /\ ~last.pre_ran => last.pre_cmds = 0
        /\ ~last.post_ran => last.post_cmds = 0
        /\ (last.status = "ok" /\ last.pre_ran) =>
              last.pre_cmds = Len(pre_install[last.d][1])
        /\ (last.status = "ok" /\ last.post_ran) =>
              last.post_cmds = Len(post_install[last.d][1])

C13_StoredHashDiffersAndHooksRun ==
    /\ last.op = "install" /\ last.status = "ok" /\ ~last.skip
    /\ last.meta_in # None
    /\ last.meta_in[1].pre_install_hash # hash_pre_install(last.d)
    /\ last.pre_ran /\ last.post_ran
    /\ last.post_cmds = 2

\* C14: in a sequence of successful Dotfile::install calls of one dotfile
\* with skip_install_steps false, each given the metadata the one before
\* returned, a hook list executed by an earlier call is not executed again
C14_HooksRunOnce ==
    (last.op = "install" /\ last.status = "ok" /\ ~last.skip) =>
        /\ ~(last.prior_pre /\ last.pre_ran)
        /\ ~(last.prior_post /\ last.post_ran)

\* C15: the pre_install_hash (post_install_hash) Dotfile::install returns is
\* the hash of the list when the list was executed in this call and the
\* empty string otherwise (no list, skip_install_steps, or execution skipped)
C15_RecordedHookHashes ==
    (last.op = "install" /\ last.status = "ok") =>
        /\ last.meta_out[1].pre_install_hash =
              IF last.pre_ran THEN hash_command_vec(pre_install[last.d][1]) ELSE ""
        /\ last.meta_out[1].post_install_hash =
              IF last.post_ran THEN hash_command_vec(post_install[last.d][1]) ELSE ""
        /\ last.pre_ran => last.pre_cmds = Len(pre_install[last.d][1])
        /\ last.post_ran => last.post_cmds = Len(post_install[last.d][1])

C15_SkippedListRecordsNothing ==
    /\ last.op = "install" /\ last.status = "ok" /\ ~last.skip
    /\ pre_install[last.d] # None
    /\ last.meta_in # None
    /\ last.meta_in[1].pre_install_hash = hash_pre_install(last.d)
    /\ ~last.pre_ran
    /\ last.meta_out[1].pre_install_hash = ""

\* C16: a failing command in a hook list ends the list at that command and
\* makes Dotfile::install fail without metadata: a pre_install failure leaves
\* the target as it was, a post_install failure leaves the copied target
C16_FailingHookCommandFailsInstall ==
    (last.op = "install" /\ last.hook_failed # NoHookErr) =>
        /\ last.status = "err"
        /\ last.meta_out = None
        /\ last.hook_failed.stage = "pre" =>
              /\ last.pre_cmds = last.hook_failed.at - 1
              /\ ~last.post_ran
              /\ last.target_out = last.local_in
        /\ last.hook_failed.stage = "post" =>
              /\ last.post_cmds = last.hook_failed.at - 1
              /\ last.target_out = commits[last.oid_in].tree[last.d]

\* C17: a Dotfile::sync call that is given metadata whose install_hash or
\* sync_hash names no commit of the repository returns an error without
\* creating a commit and leaves HEAD where it was (stated for calls in which
\* the files could be read)
C17_UnresolvableHashIsAnError ==
    (/\ last.op = "sync" /\ last.meta_in # None /\ ~last.unreadable
     /\ (~last.install_known \/ ~last.sync_known)) =>
        /\ last.status = "err"
        /\ last.ncommits_out = last.ncommits_in
        /\ last.head_out = last.head_in
        /\ last.oid_out = last.oid_in

\* C18: after a crash inside AggregatedDotfileMetadata::save the store file
\* holds the complete previous content or the complete new content
C18_CrashLeavesWholeStore ==
    result = "crash" => storeFile # Torn

\* C19: get_target_dotfiles returns every dotfile of the manifest when all is
\* true; otherwise, for a non-empty list of requested names, exactly the
\* manifest's dotfiles whose name is requested, each once however often it is
\* requested, and nothing for a requested name the manifest does not have
C19_SelectionByName ==
    last.op = "get_target_dotfiles" =>
        /\ \A i, j \in DOMAIN last.out : last.out[i] = last.out[j] => i = j
        /\ last.all => Range(last.out) = Dotfiles
        /\ (~last.all /\ last.requested # << >>) =>
              Range(last.out) = {d \in Dotfiles : \E i \in DOMAIN last.requested :
                                                    last.requested[i] = d}
        /\ Range(last.out) = get_target_dotfiles(Range(last.requested), last.all,
                                 {last.data_iter[i] : i \in last.selected})

C19_RepeatedAndUnknownNames ==
    /\ last.op = "get_target_dotfiles"
    /\ ~last.all
    /\ last.requested = <<"kitty", "tmux", "kitty">>
    /\ last.out = <<"kitty">>

\* whether a hook list of a manifest entry is due, with "declared" read as
\* given: any list the entry declares, or only a list with commands
C20_StageDue(list, maybe_metadata, field, declared(_)) ==
    /\ declared(list)
    /\ \/ maybe_metadata = None
       \/ maybe_metadata[1][field] # hash_install_list(list)

C20_Expected(declared(_)) ==
    last.op = "has_unexecuted_run_stages" =>
        /\ last.out <=>
              \/ C20_StageDue(last.dotfile.pre_install, last.metadata, "pre_install_hash", declared)
              \/ C20_StageDue(last.dotfile.post_install, last.metadata, "post_install_hash", declared)
        /\ (last.dotfile.pre_install = None /\ last.dotfile.post_install = None) => ~last.out
        /\ (/\ last.metadata # None
            /\ last.metadata[1].pre_install_hash = hash_install_list(last.dotfile.pre_install)
            /\ last.metadata[1].post_install_hash = hash_install_list(last.dotfile.post_install))
              => ~last.out

C20_Present(list) == list # None
C20_NonEmpty(list) == list # None /\ list[1] # << >>

\* C20 (as stated): has_unexecuted_run_stages is true exactly when the
\* pre_install or the post_install list is non-empty and either there is no
\* metadata or the stored hash of that list differs from its current hash
C20_UnexecutedStagesOfNonEmptyLists == C20_Expected(C20_NonEmpty)

\* C20 (amended): has_unexecuted_run_stages is true exactly when the
\* pre_install or the post_install list is declared, be it without commands,
\* and either there is no metadata or the stored hash of that list differs
\* from its current hash; it is false for an entry that declares no list and
\* false when both stored hashes equal the current ones
C20_UnexecutedStagesOfDeclaredLists == C20_Expected(C20_Present)

C20_EmptyListCounts ==
    /\ last.op = "has_unexecuted_run_stages"
    /\ last.dotfile.pre_install = Some(<< >>)
    /\ last.dotfile.post_install = None
    /\ last.metadata = None
    /\ last.out

\* the call of Dotfile::install follows a confirmed overwrite when the target
\* exists and force is false
C21_Confirmed ==
    (last.op = "install" /\ ~last.force /\ last.local_in # Absent) => last.confirmed

\* an iteration of Manifest::install for an existing target that ends without
\* the overwrite leaves the target, the hooks and the store entry alone
C21_DeclinedSkips ==
    (/\ pc = "install" /\ run.queue # << >> /\ ~run.force
     /\ local[Head(run.queue)] # Absent
     /\ last' = last) =>
        /\ local' = local
        /\ run'.data = run.data
        /\ run'.queue = Tail(run.queue)
        /\ events' = Append(events, Event("skip", Head(run.queue), TRUE))

\* C21: with force = false, Manifest::install calls Dotfile::install for a
\* dotfile whose target file exists only after the user confirmed the
\* overwrite; a declined dotfile is skipped with its target, hooks and store
\* entry untouched
C21_OverwriteOnlyWhenConfirmed == []C21_Confirmed /\ [][C21_DeclinedSkips]_vars

\* C22: a successful Dotfile::install returns metadata whose install_hash is
\* the commit HEAD pointed to when it was called, returns with HEAD at that
\* commit, and leaves in the target file the repository file's content at
\* that commit
C22_InstallFromHead ==
    (last.op = "install" /\ last.status = "ok") =>
        /\ last.meta_out[1].install_hash = last.oid_in
        /\ last.oid_out = last.oid_in
        /\ HeadOid(Repo) = last.oid_in
        /\ last.target_out = commits[last.oid_in].tree[last.d]
        /\ local[last.d] = commits[last.oid_in].tree[last.d]

C22_ReinstalledFromNewHead ==
    /\ last.op = "install" /\ last.status = "ok"
    /\ last.meta_in # None
    /\ last.hc = "false"
    /\ last.meta_in[1].install_hash # last.oid_in
    /\ last.local_in # commits[last.oid_in].tree[last.d]
    /\ local[last.d] = commits[last.oid_in].tree[last.d]

RECURSIVE C24_Listed(_)
C24_Listed(names) ==
    IF Len(names) = 1 THEN names[1]
    ELSE IF Len(names) = 2 THEN names[1] \o <<" ", "a", "n", "d", " ">> \o names[2]
    ELSE names[1] \o <<",", " ">> \o C24_Listed(Tail(names))

\* C24: generate_commit_message returns the prefix followed by
\* "Sync <name> dotfile" for one name and, for two or more names, the prefix
\* followed by "Sync dotfiles for " and the names in the given order, separated
\* by ", " except the last two, which are separated by " and "
C24_CommitMessage ==
    last.op = "generate_commit_message" =>
        last.out = IF Len(last.dotfile_names) = 1
                   THEN last.commit_prefix \o <<"S", "y", "n", "c", " ">> \o last.dotfile_names[1] \o <<" ", "d", "o", "t", "f", "i", "l", "e">>
                   ELSE last.commit_prefix \o <<"S", "y", "n", "c", " ", "d", "o", "t", "f", "i", "l", "e", "s", " ", "f", "o", "r", " ">> \o C24_Listed(last.dotfile_names)

\* what Manifest::install starts from: nothing for a store file that does not
\* parse (the run returns the error), the empty store when there is no file,
\* the file's entries otherwise
C25_InstallStart ==
    (pc = "idle" /\ run'.kind = "install" /\ ops' # ops) =>
        /\ storeFile = Torn => (result' = "err" /\ pc' = "idle" /\ run'.queue = << >>)
        /\ storeFile = None => (result' = "running" /\ run'.data = EmptyMap)
        /\ storeFile \notin {None, Torn} => (result' = "running" /\ run'.data = storeFile[1])

\* an install run leaves a store file that does not parse as it is
C25_UnparsableStoreStays ==
    (run'.kind = "install" /\ storeFile = Torn) => storeFile' = Torn

\* C25: get returns None when there is no store file and an error when the
\* file does not parse; get_or_create returns the empty store in the first
\* case only and passes the error on in the second, so a store that does not
\* parse is never replaced by an empty one
C25_UnparsableStoreIsAnError == [][C25_InstallStart /\ C25_UnparsableStoreStays]_vars

C25_InstallRefusedUnparsableStore ==
    /\ storeFile = Torn
    /\ run.kind = "install"
    /\ pc = "idle"
    /\ result = "err"
    /\ events = << >>

\* whether a hook list of dotfile d is declared and not recorded as executed
\* in the store entry maybe_metadata
C26_Unexecuted(d, maybe_metadata) ==
    \/ pre_install[d] # None /\ (maybe_metadata = None
                                 \/ maybe_metadata[1].pre_install_hash # hash_pre_install(d))
    \/ post_install[d] # None /\ (maybe_metadata = None
                                  \/ maybe_metadata[1].post_install_hash # hash_post_install(d))

\* the prompt is shown only without trust and for a selection with
\* unexecuted run stages, and never with trust
C26_PromptOnlyWhenUntrusted ==
    (pc = "idle" /\ run'.kind = "install" /\ ops' # ops /\ storeFile # Torn) =>
        /\ run'.asked <=>
              /\ ~run'.trust
              /\ \E d \in Range(run'.dotfiles) :
                    C26_Unexecuted(d, IF storeFile = None THEN None ELSE MapGet(storeFile[1], d))
        /\ run'.skip => run'.asked

\* every Dotfile::install of the run gets the run's one answer, which is
\* "do not skip" with trust or without a prompt
C26_OneAnswerForAll ==
    (pc = "install" /\ last'.op = "install" /\ last' # last) =>
        /\ last'.skip = run.skip
        /\ (run.trust \/ ~run.asked) => ~last'.skip
        /\ run'.kind = "install" /\ pc' # "idle" => run'.skip = run.skip

\* C26: Manifest::install asks whether to skip the pre/post install commands
\* only when trust is false and a selected dotfile has unexecuted run stages;
\* with trust, or without the prompt, every Dotfile::install of the run is
\* called with skip = false, and one answer holds for all dotfiles of the run
C26_SkipPrompt == [][C26_PromptOnlyWhenUntrusted /\ C26_OneAnswerForAll]_vars

C26_SkippedForBothDotfiles ==
    /\ run.kind = "install"
    /\ pc = "save"
    /\ run.asked /\ run.skip
    /\ Len(run.dotfiles) = 2
    /\ last.op = "install" /\ last.skip /\ last.status = "ok"
    /\ last.d = run.dotfiles[2]
    /\ ~last.pre_ran /\ ~last.post_ran

\* C27: in the changed-content path of Dotfile::sync the commit that carries
\* the local content has the install_hash commit as its only parent, and the
\* merge commit that becomes HEAD has two parents, the commit HEAD pointed to
\* when sync was called and that new commit, so that the merge base is the
\* install_hash commit
C27_MergeOfBranchFromInstallHash ==
    (last.op = "sync" /\ last.meta_in # None /\ last.hc = "true" /\ last.status = "ok") =>
        /\ last.ncommits_out = last.ncommits_in + 2
        /\ commits[last.ncommits_in + 1].parents = <<last.meta_in[1].install_hash>>
        /\ commits[last.ncommits_in + 1].tree[last.d] = last.local_in
        /\ last.oid_out = last.ncommits_in + 2
        /\ commits[last.oid_out].parents = <<last.oid_in, last.ncommits_in + 1>>
        /\ merge_base(commits, last.oid_in, last.ncommits_in + 1) = last.meta_in[1].install_hash

C27_MergedOntoMovedHead ==
    /\ last.op = "sync" /\ last.meta_in # None /\ last.hc = "true" /\ last.status = "ok"
    /\ last.meta_in[1].install_hash # last.oid_in
    /\ commits[last.oid_out].parents = <<last.oid_in, last.ncommits_in + 1>>
    /\ commits[last.oid_out].tree[last.d] = last.local_in

\* C28: when Dotfile::sync returns, with a result or with an error of one of
\* its own steps (has_changed having returned), HEAD is attached to the
\* branch it was attached to when sync was called
C28_SyncRestoresHead ==
    (last.op = "sync" /\ last.status \in {"ok", "err"} /\ last.hc # "err") =>
        last.head_out = last.head_in

\* C29: when a Manifest::sync run pushes, the commit the branch pointed to
\* before the run (the remote's tip, which the run cloned) is the tip of the
\* branch or one of its ancestors
C29_SyncOnlyAppends ==
    (run.kind = "sync" /\ pc = "push") => origin \in Ancestors(commits, refs["master"])

\* every selected dotfile has a store entry and its local content is the
\* content of its repository file at the entry's sync_hash
C30_NothingToSync ==
    /\ storeFile \notin {None, Torn}
    /\ \A d \in Range(run.dotfiles) :
          /\ d \in DOMAIN storeFile[1]
          /\ storeFile[1][d].sync_hash \in 1 .. run.start_commits
          /\ local[d] = commits[storeFile[1][d].sync_hash].tree[d]

\* C30: a Manifest::sync run in which no selected dotfile's local content
\* differs from its last-synced content creates no commit, with squashing
\* too: the branch tip after the run is the tip before it
C30_UnchangedRunCreatesNoCommit ==
    (run.kind = "sync" /\ pc = "push" /\ C30_NothingToSync) =>
        /\ Len(commits) = run.start_commits
        /\ refs["master"] = origin

\* the metadata of the call on record is what a merging Dotfile::sync of the
\* same dotfile returned, and nothing happened since: install_hash names a
\* merge commit whose feature parent holds the local file, the merge took the
\* local content, and HEAD is still that merge commit
C31_SyncedBefore ==
    /\ last.op = "sync"
    /\ last.meta_in # None
    /\ last.install_known
    /\ \E m \in {last.meta_in[1].install_hash} :
          /\ Len(commits[m].parents) = 2
          /\ commits[commits[m].parents[2]].tree[last.d] = last.local_in
          /\ commits[m].tree[last.d] = last.local_in
          /\ last.oid_in = m

\* C31: a Dotfile::sync given the metadata that a merging sync of the same
\* dotfile returned, with the local file and the repository as that sync left
\* them, creates no commit and returns the metadata it was given.
C31_SecondSyncIsNoOp ==
    (C31_SyncedBefore /\ last.hc # "err") =>
        /\ last.ncommits_out = last.ncommits_in
        /\ last.status = "ok"
        /\ last.meta_out = last.meta_in

\* every hash the store held for a selected dotfile when the run loaded it
\* names a commit of the clone
C32_LoadedHashesResolve ==
    \A d \in Range(run.dotfiles) :
        (storeFile # None /\ d \in DOMAIN storeFile[1]) =>
            /\ storeFile[1][d].install_hash \in objects
            /\ storeFile[1][d].sync_hash \in objects

\* C32: when Manifest::sync has pushed and is about to save, the install_hash
\* and the sync_hash it saves for every selected dotfile name commits that
\* are reachable from the branch tip it pushed.
C32_SavedHashesAreOnTheBranch ==
    (run.kind = "sync" /\ pc = "save" /\ storeFile # Torn /\ C32_LoadedHashesResolve) =>
        \A d \in Range(run.dotfiles) :
            /\ d \in DOMAIN run.data
            /\ run.data[d].install_hash \in Ancestors(commits, refs["master"])
            /\ run.data[d].sync_hash \in Ancestors(commits, refs["master"])

\* C33: the commit the squash step creates has the tree of the commit that
\* was the tip of the branch when the step began.
C33_SquashKeepsContent ==
    [][(pc = "squash" /\ Len(commits') > Len(commits)) =>
          commits'[Len(commits')].tree = commits[HeadOid(Repo)].tree]_vars

\* a squash has replaced the commits of two dotfiles, whose content differs
\* from the commit the branch was reset to
C33_SquashedTwoDotfiles ==
    /\ pc = "push"
    /\ run.squashed # NoCommit
    /\ Len(run.commit_hashes) = 2
    /\ \A d \in Dotfiles :
          commits[run.squashed].tree[d] # commits[run.squash_target].tree[d]

\* the commit a Dotfile::sync call made of the local file (the first commit
\* it created) carries the message generated for the one dotfile name
C34_PerDotfileMessage ==
    (last.op = "sync" /\ last.ncommits_out > last.ncommits_in) =>
        commits[last.ncommits_in + 1].msg = generate_commit_message(<<last.d>>)

\* the squash commit carries commit_msg, or else the message generated for
\* the names of all selected dotfiles
C34_SquashMessage ==
    (run.kind = "sync" /\ pc \in {"push", "save"} /\ run.squashed # NoCommit) =>
        commits[run.squashed].msg =
            IF run.commit_msg # None THEN run.commit_msg[1]
            ELSE generate_commit_message(run.dotfiles)

\* C34: the squash commit's message is the caller's commit_msg when given and
\* otherwise the configured message for all selected names; the commit each
\* Dotfile::sync makes carries the configured message for its one name.
C34_CommitMessages == C34_PerDotfileMessage /\ C34_SquashMessage

\* a squash with a caller-supplied message over the commits of two dotfiles,
\* the second of them synced by a merge
C34_SquashedWithCustomMessage ==
    /\ pc = "push"
    /\ run.squashed # NoCommit
    /\ run.commit_msg # None
    /\ Len(run.dotfiles) = 2
    /\ last.op = "sync"
    /\ last.ncommits_out = last.ncommits_in + 2

\* the entries of the store file as a run loads them
C35_Loaded == IF storeFile \in {None, Torn} THEN EmptyMap ELSE storeFile[1]

\* Dotfile::install returned Ok for d in this run
C35_Installed(d) == \E i \in DOMAIN events : events[i] = Event("install", d, TRUE)

\* C35: the store Manifest::install saves differs from the store it loaded
\* only in the entries of the dotfiles it installed in this run; entries of
\* dotfiles not selected, or skipped at the overwrite prompt, are the same.
C35_InstallKeepsOtherEntries ==
    [][(run.kind = "install" /\ pc = "save" /\ result' = "ok") =>
          \A d \in Dotfiles :
              ~C35_Installed(d) => MapGet(storeFile'[1], d) = MapGet(C35_Loaded, d)]_vars

\* an install run was saved in which one dotfile with a store entry was
\* skipped at the overwrite prompt and another one was installed
C35_SavedAfterSkipAndInstall ==
    /\ run.kind = "install"
    /\ pc = "idle"
    /\ result = "ok"
    /\ \E d, e \in Dotfiles :
          /\ d # e
          /\ C35_Installed(d)
          /\ \E i \in DOMAIN events : events[i] = Event("skip", e, TRUE)
          /\ e \in DOMAIN storeFile[1]

\* C36: the store Manifest::sync saves differs from the store it loaded only
\* in the entries of the dotfiles selected for the run; every other entry,
\* also one of a name the manifest does not have, is saved as it was loaded.
C36_SyncKeepsOtherEntries ==
    [][(run.kind = "sync" /\ pc = "save" /\ result' = "ok") =>
          \A d \in (DOMAIN C35_Loaded) \cup (DOMAIN storeFile'[1]) :
              d \notin Range(run.dotfiles) =>
                  MapGet(storeFile'[1], d) = MapGet(C35_Loaded, d)]_vars

\* C37: a hook hash in the store is the hash of a list an install executed.
\* Where no install runs, a Dotfile::sync of a dotfile that has no store
\* entry (nothing was ever installed or executed for it) returns metadata
\* with both hook hashes empty.
C37_SyncRecordsNoHookHash ==
    (last.op = "sync" /\ last.meta_in = None /\ last.status = "ok") =>
        /\ last.meta_out[1].pre_install_hash = ""
        /\ last.meta_out[1].post_install_hash = ""

C39_UsernameKept ==
    (CREDENTIAL_CACHE[1] # None /\ last'.op \in {"ask_user_password", "ask_ssh_passphrase"}) =>
        /\ CREDENTIAL_CACHE'[1] = CREDENTIAL_CACHE[1]
        /\ "username" \notin last'.prompts
        /\ (last'.op = "ask_user_password" /\ last'.ok => last'.user = CREDENTIAL_CACHE[1][1])

\* a call of the credential UI leaves a stored password / passphrase as it
\* is, does not prompt for it and returns it
C39_PasswordKept ==
    (CREDENTIAL_CACHE[2] # None /\ last'.op \in {"ask_user_password", "ask_ssh_passphrase"}) =>
        /\ CREDENTIAL_CACHE'[2] = CREDENTIAL_CACHE[2]
        /\ "password" \notin last'.prompts
        /\ (last'.ok => last'.password = CREDENTIAL_CACHE[2][1])

\* C39: within a process, once the credential cache holds a username or a
\* password / passphrase, every later ask_user_password or ask_ssh_passphrase
\* returns the stored value without prompting for it and stores nothing over
\* it.
C39_CacheIsWriteOnce == [][C39_UsernameKept /\ C39_PasswordKept]_vars

\* ask_ssh_passphrase returned, without a prompt, the password an earlier
\* ask_user_password had stored next to the username
C39_PassphraseFromCache ==
    /\ last.op = "ask_ssh_passphrase"
    /\ last.ok
    /\ last.prompts = {}
    /\ CREDENTIAL_CACHE[1] # None
    /\ last.password = "hunter2"

====
